---- MODULE Spec2Model ----
(***************************************************************************)
(* Model of the audio editing engine of src/utils/audioUtils.ts.           *)
(*                                                                         *)
(* An AudioBuffer is a record [error, sampleRate, channels]: channels is   *)
(* the sequence of the channel arrays (channel index i of the code is      *)
(* channels[i+1]), every array a sequence of samples.  A call that throws  *)
(* returns a record whose error field names the exception and whose        *)
(* channels are empty.  Times are integers counted in ticks of             *)
(* 1/TicksPerSecond seconds, so that Math.floor(time * rate) is the        *)
(* integer division (time * rate) \div TicksPerSecond.                     *)
(*                                                                         *)
(* The state is the record of the last engine call: its operation, its     *)
(* inputs and its result.  tracks and contextRate are the inputs of the    *)
(* mixer: the track list and the sample rate of its AudioContext.  wave is *)
(* the last encoded Blob: its MIME type and its bytes.                     *)
(*                                                                         *)
(* Where the identity of a buffer matters, heap is the sequence of the     *)
(* buffers allocated so far, a buffer's index its storage; inputRefs and   *)
(* resultRef are the storage of the inputs and of the result of the last   *)
(* call (0 when it threw).                                                 *)
(*                                                                         *)
(* platform says whether the MP3 encoder works and which MIME types the    *)
(* MediaRecorder supports; export is the export in progress: its format,   *)
(* its recorder and playback, and the state of the promise it returned.    *)
(***************************************************************************)
EXTENDS Integers, Sequences, FiniteSets, TLC

VARIABLES op, target, paste, start, end, mode, volume, pan, result,
          tracks, contextRate, wave, heap, inputRefs, resultRef,
          platform, export, studio

\* the inputs of the mixer
mixer == <<tracks, contextRate>>

\* the storage of the buffers
storage == <<heap, inputRefs, resultRef>>

\* the export in progress and the platform it runs on
exporter == <<platform, export>>

\* what the editing operations never touch
others == <<mixer, wave, storage, exporter, studio>>

vars == <<op, target, paste, start, end, mode, volume, pan, result, others>>

(* ---------------------------- bounds ----------------------------------- *)

MaxChannels == 3

MaxLen == 3

MaxPasteLen == 2

\* the longest track given to the mixer
MaxTrackLen == 2

\* the longest buffer given to the WAV encoder
MaxWavLen == 2

\* the number of buffers the heap holds
MaxHeap == 3

\* the number of dataavailable events of one capture
MaxChunks == 2

\* the number of clicks on a record button, of chunks of microphone data
\* and of edits in one session of the application
MaxEvents == 4

\* the work margin appended to a track, in seconds (300 in App.tsx)
WORKSPACE_PADDING_SECONDS == 1

SampleRate == 2

TicksPerFrame == 2

TicksPerSecond == SampleRate * TicksPerFrame

\* Samples, gains, volume, pan and angles are fixed-point numbers counted in
\* ten-thousandths: a sample of Unit is full scale (1.0).
Unit == 10 ^ 4

\* Math.PI, in ten-thousandths
PiUnits == 31416

\* the 0.01 of isPanning, in ten-thousandths
PanThreshold == 100

\* silence and full scale
Samples == {0, Unit}

Volumes == {Unit \div 2, 2 * Unit}

Pans == {-Unit, 0, PanThreshold, PanThreshold + 1}

Modes == {"left", "right", "stereo"}

\* a negative time, the first and the last tick of every frame from 0 to
\* MaxLen, and a time beyond every buffer
Times ==
  {-1, (MaxLen + 1) * TicksPerFrame}
  \cup { f * TicksPerFrame + d : f \in 0..MaxLen, d \in {0, TicksPerFrame - 1} }

(* ------------------------- JavaScript helpers -------------------------- *)

Max(a, b) == IF a >= b THEN a ELSE b

Min(a, b) == IF a <= b THEN a ELSE b

\* Math.abs
Abs(x) == IF x < 0 THEN -x ELSE x

Zeros(n) == [i \in 1..n |-> 0]

\* Math.floor(seconds * rate), seconds = time / TicksPerSecond
Floor(time, rate) == (time * rate) \div TicksPerSecond

\* TypedArray.prototype.subarray(begin, end): negative indexes count from the
\* end, both are clamped into [0, length], an inverted range is empty.
subarray(a, begin, endIdx) ==
  LET n  == Len(a)
      b  == IF begin < 0 THEN Max(n + begin, 0) ELSE Min(begin, n)
      e  == IF endIdx < 0 THEN Max(n + endIdx, 0) ELSE Min(endIdx, n)
  IN  IF b >= e THEN <<>> ELSE [i \in 1..(e - b) |-> a[b + i]]

\* TypedArray.prototype.set(src, offset): copies src into dst at offset; a
\* source that does not fit throws RangeError, modelled as the empty array
\* (no array of a created buffer is empty), which later writes keep.
set(dst, src, offset) ==
  IF dst = <<>> \/ offset < 0 \/ offset + Len(src) > Len(dst)
  THEN <<>>
  ELSE [i \in 1..Len(dst) |->
          IF i > offset /\ i <= offset + Len(src) THEN src[i - offset] ELSE dst[i]]

\* TypedArray.prototype.fill(0) on subarray(from, to) of a
fillZero(a, from, to) ==
  [i \in 1..Len(a) |-> IF i > from /\ i <= to THEN 0 ELSE a[i]]

(* ----------------------------- AudioBuffer ----------------------------- *)

Thrown(name) == [error |-> name, sampleRate |-> 0, channels |-> <<>>]

AudioBuffer(chs, rate) == [error |-> "none", sampleRate |-> rate, channels |-> chs]

numberOfChannels(b) == Len(b.channels)

length(b) == IF b.channels = <<>> THEN 0 ELSE Len(b.channels[1])

getChannelData(b, i) == b.channels[i + 1]

\* BaseAudioContext.createBuffer: a zero-filled buffer; throws
\* NotSupportedError when the channel count or the length is below 1.
createBuffer(n, len, rate) ==
  IF n < 1 \/ len < 1
  THEN Thrown("NotSupportedError")
  ELSE AudioBuffer([c \in 1..n |-> Zeros(len)], rate)

\* the early return left out: the buffer of no frame is created
minimalBuffer_Empty(n, rate) == createBuffer(n, 0, rate)

\* if (newLength === 0) return audioContext.createBuffer(n, 1, rate), of
\* cutAudioRegion and of extractAudioRegion
minimalBuffer(n, rate) == createBuffer(n, 1, rate)

\* The buffer an operation returns after writing channel arrays chs into the
\* buffer it created: the exception of a failed creation or of a failed
\* TypedArray.set, else the written buffer.
Written(newBuffer, chs) ==
  IF newBuffer.error # "none" THEN newBuffer
  ELSE IF \E c \in 1..Len(chs) : chs[c] = <<>> THEN Thrown("RangeError")
  ELSE AudioBuffer(chs, newBuffer.sampleRate)

\* ensureStereo with the right channel left silent
ensureStereo_SilentRight(buffer) ==
  IF numberOfChannels(buffer) >= 2 THEN buffer
  ELSE AudioBuffer(<<getChannelData(buffer, 0), Zeros(length(buffer))>>, buffer.sampleRate)

ensureStereo(buffer) ==
  IF numberOfChannels(buffer) >= 2 THEN buffer
  ELSE LET stereoBuffer == createBuffer(2, length(buffer), buffer.sampleRate)
       IN  Written(stereoBuffer,
                   [c \in 1..2 |-> set(getChannelData(stereoBuffer, c - 1),
                                       getChannelData(buffer, 0), 0)])

\* ClampFrame without the lower clamp
ClampFrame_NoLowerBound(time, rate, totalFrames) == Min(Floor(time, rate), totalFrames)

\* Math.max(0, Math.min(Math.floor(t * rate), totalFrames))
ClampFrame(time, rate, totalFrames) == Max(0, Min(Floor(time, rate), totalFrames))

\* cutNewLength that also drops the frames before the region
cutNewLength_DropsHead(totalFrames, startFrame, endFrame) == Max(0, totalFrames - endFrame)

\* cutAudioRegion, 'stereo' branch: the length of the buffer it creates
cutNewLength(totalFrames, startFrame, endFrame) ==
  LET removedFrames == endFrame - startFrame
  IN  Max(0, totalFrames - removedFrames)

\* cutRippleChannel that writes the tail where it was instead of closing the gap
cutRippleChannel_TailNotShifted(originalChannel, newChannel, startFrame, endFrame, totalFrames) ==
  LET c1 == IF startFrame > 0
            THEN set(newChannel, subarray(originalChannel, 0, startFrame), 0)
            ELSE newChannel
  IN  IF endFrame < totalFrames
      THEN set(c1, subarray(originalChannel, endFrame, totalFrames), endFrame)
      ELSE c1

\* cutAudioRegion, 'stereo' branch, body of the channel loop: the part before
\* the cut is copied to offset 0, the part after it to offset startFrame.
cutRippleChannel(originalChannel, newChannel, startFrame, endFrame, totalFrames) ==
  LET c1 == IF startFrame > 0
            THEN set(newChannel, subarray(originalChannel, 0, startFrame), 0)
            ELSE newChannel
  IN  IF endFrame < totalFrames
      THEN set(c1, subarray(originalChannel, endFrame, totalFrames), startFrame)
      ELSE c1

\* cutSilenceChannel that zero-fills the region on every channel
cutSilenceChannel_AnyChannel(originalChannel, newChannel, i, m, startFrame, endFrame) ==
  LET copied == set(newChannel, originalChannel, 0)
  IN  IF startFrame < endFrame /\ copied # <<>>
      THEN fillZero(copied, startFrame, endFrame)
      ELSE copied

\* cutAudioRegion, silence branch, body of the channel loop: channel i is
\* copied whole and the region is zero-filled on the channel the mode targets.
cutSilenceChannel(originalChannel, newChannel, i, m, startFrame, endFrame) ==
  LET copied == set(newChannel, originalChannel, 0)
      isTargetChannel == (m = "left" /\ i = 0) \/ (m = "right" /\ i = 1)
  IN  IF isTargetChannel /\ startFrame < endFrame /\ copied # <<>>
      THEN fillZero(copied, startFrame, endFrame)
      ELSE copied

cutAudioRegion(originalBuffer, startT, endT, m) ==
  LET workingBuffer == IF m # "stereo" /\ numberOfChannels(originalBuffer) = 1
                       THEN ensureStereo(originalBuffer) ELSE originalBuffer
      rate        == workingBuffer.sampleRate
      totalFrames == length(workingBuffer)
      nCh         == numberOfChannels(workingBuffer)
      startFrame  == ClampFrame(startT, rate, totalFrames)
      endFrame    == ClampFrame(endT, rate, totalFrames)
  IN  IF m = "stereo"
      THEN LET newLength == cutNewLength(totalFrames, startFrame, endFrame)
               newBuffer == createBuffer(nCh, newLength, rate)
           IN  IF newLength = 0 THEN minimalBuffer(nCh, rate)
               ELSE Written(newBuffer,
                      [c \in 1..nCh |->
                         cutRippleChannel(getChannelData(workingBuffer, c - 1),
                                          getChannelData(newBuffer, c - 1),
                                          startFrame, endFrame, totalFrames)])
      ELSE LET newBuffer == createBuffer(nCh, totalFrames, rate)
           IN  Written(newBuffer,
                 [c \in 1..nCh |->
                    cutSilenceChannel(getChannelData(workingBuffer, c - 1),
                                      getChannelData(newBuffer, c - 1),
                                      c - 1, m, startFrame, endFrame)])

\* extractSourceChannelIndex that reads channel 0 whatever the mode
extractSourceChannelIndex_AlwaysLeft(m) == 0

\* extractAudioRegion, single-channel branch: the channel the mode reads
extractSourceChannelIndex(m) == IF m = "left" THEN 0 ELSE 1

\* extractNewLength without the clamp at 0
extractNewLength_Signed(startFrame, endFrame) == endFrame - startFrame

\* extractAudioRegion: Math.max(0, endFrame - startFrame)
extractNewLength(startFrame, endFrame) == Max(0, endFrame - startFrame)

extractAudioRegion(originalBuffer, startT, endT, m) ==
  LET workingBuffer == IF numberOfChannels(originalBuffer) = 1 /\ m \in {"left", "right"}
                       THEN ensureStereo(originalBuffer) ELSE originalBuffer
      rate        == workingBuffer.sampleRate
      totalFrames == length(workingBuffer)
      nCh         == numberOfChannels(workingBuffer)
      startFrame  == ClampFrame(startT, rate, totalFrames)
      endFrame    == ClampFrame(endT, rate, totalFrames)
      newLength   == extractNewLength(startFrame, endFrame)
      outputChannels == IF m = "stereo" THEN nCh ELSE 1
      newBuffer   == createBuffer(outputChannels, newLength, rate)
      sourceChannelIndex == extractSourceChannelIndex(m)
  IN  IF newLength = 0 THEN minimalBuffer(1, rate)
      ELSE IF m = "stereo"
      THEN Written(newBuffer,
             [c \in 1..nCh |-> set(getChannelData(newBuffer, c - 1),
                                   subarray(getChannelData(workingBuffer, c - 1),
                                            startFrame, endFrame), 0)])
      ELSE IF sourceChannelIndex < nCh
      THEN Written(newBuffer,
             <<set(getChannelData(newBuffer, 0),
                   subarray(getChannelData(workingBuffer, sourceChannelIndex),
                            startFrame, endFrame), 0)>>)
      ELSE newBuffer

\* upMixSource without the duplication of a mono input
upMixSource_NoDuplicate(b, i) ==
  IF i < numberOfChannels(b) THEN getChannelData(b, i) ELSE <<>>

\* concatenateAudioBuffers / insertAudioBuffer, body of the channel loop: the
\* array of input buffer b written to output channel i, if any (channel i of
\* b, or channel 0 of a mono b for i = 1); <<>> when nothing is written.
upMixSource(b, i) ==
  IF i < numberOfChannels(b) THEN getChannelData(b, i)
  ELSE IF numberOfChannels(b) = 1 /\ i = 1 THEN getChannelData(b, 0)
  ELSE <<>>

\* concatenateAudioBuffers, body of the channel loop: buffer1's data at
\* offset 0, buffer2's at offset buffer1.length
concatChannel(channelData, data1, data2, length1) ==
  set(set(channelData, data1, 0), data2, length1)

concatenateAudioBuffers(buffer1, buffer2) ==
  LET nCh         == Max(numberOfChannels(buffer1), numberOfChannels(buffer2))
      totalLength == length(buffer1) + length(buffer2)
      newBuffer   == createBuffer(nCh, totalLength, buffer1.sampleRate)
  IN  Written(newBuffer,
        [c \in 1..nCh |->
           concatChannel(getChannelData(newBuffer, c - 1),
                         upMixSource(buffer1, c - 1),
                         upMixSource(buffer2, c - 1), length(buffer1))])

\* safeInsertionFrame without the clamp into the target
safeInsertionFrame_Unclamped(targetBuffer, insertionTime) ==
  Floor(insertionTime, targetBuffer.sampleRate)

\* insertAudioBuffer: Math.max(0, Math.min(Math.floor(t * rate), target.length))
safeInsertionFrame(targetBuffer, insertionTime) ==
  LET insertionFrame == Floor(insertionTime, targetBuffer.sampleRate)
  IN  Max(0, Min(insertionFrame, length(targetBuffer)))

\* insertChannel that overwrites the target under the paste instead of
\* shifting it
insertChannel_Overwrite(newChannel, targetData, pasteData, frame, pasteLength) ==
  LET c1 == set(newChannel, subarray(targetData, 0, frame), 0)
      c2 == set(c1, pasteData, frame)
  IN  set(c2, subarray(targetData, frame + pasteLength, Len(targetData)), frame + pasteLength)

\* insertAudioBuffer, body of the channel loop: target start, paste content,
\* target end, each written at its offset (an absent source, <<>>, writes
\* nothing).
insertChannel(newChannel, targetData, pasteData, frame, pasteLength) ==
  LET c1 == set(newChannel, subarray(targetData, 0, frame), 0)
      c2 == set(c1, pasteData, frame)
  IN  set(c2, subarray(targetData, frame, Len(targetData)), frame + pasteLength)

insertAudioBuffer(targetBuffer, pasteBuffer, insertionTime) ==
  LET rate        == targetBuffer.sampleRate
      frame       == safeInsertionFrame(targetBuffer, insertionTime)
      nCh         == Max(numberOfChannels(targetBuffer), numberOfChannels(pasteBuffer))
      totalLength == length(targetBuffer) + length(pasteBuffer)
      newBuffer   == createBuffer(nCh, totalLength, rate)
  IN  Written(newBuffer,
        [c \in 1..nCh |->
           insertChannel(getChannelData(newBuffer, c - 1),
                         upMixSource(targetBuffer, c - 1),
                         upMixSource(pasteBuffer, c - 1),
                         frame, length(pasteBuffer))])

\* pasteTargetChIndex that gives 'stereo' no channel of a stereo buffer
pasteTargetChIndex_StereoNone(targetChannelMode) ==
  IF targetChannelMode = "left" THEN 0 ELSE IF targetChannelMode = "right" THEN 1 ELSE 2

\* pasteTargetChIndex with the two channels swapped
pasteTargetChIndex_Swapped(targetChannelMode) == IF targetChannelMode = "left" THEN 1 ELSE 0

\* pasteAudioToChannel: the channel the mode overwrites
pasteTargetChIndex(targetChannelMode) == IF targetChannelMode = "left" THEN 0 ELSE 1

\* pasteAudioToChannel: Math.max(0, Math.floor(t * rate)), not clamped above
pasteStartFrame(insertionTime, rate) == Max(0, Floor(insertionTime, rate))

pasteAudioToChannel(targetBuffer, pasteBuffer, insertionTime, targetChannelMode) ==
  LET workingBuffer == IF numberOfChannels(targetBuffer) = 1
                       THEN ensureStereo(targetBuffer) ELSE targetBuffer
      rate        == workingBuffer.sampleRate
      nCh         == numberOfChannels(workingBuffer)
      startFrame  == pasteStartFrame(insertionTime, rate)
      endFrame    == startFrame + length(pasteBuffer)
      newTotalLength == Max(length(workingBuffer), endFrame)
      newBuffer   == createBuffer(nCh, newTotalLength, rate)
      targetChIndex == pasteTargetChIndex(targetChannelMode)
      NewChannel(i) ==
        LET copied == set(getChannelData(newBuffer, i), getChannelData(workingBuffer, i), 0)
        IN  IF i = targetChIndex /\ targetChIndex < nCh
            THEN set(copied, getChannelData(pasteBuffer, 0), startFrame)
            ELSE copied
  IN  Written(newBuffer, [c \in 1..nCh |-> NewChannel(c - 1)])

\* Math.round(a / b) for b > 0: the nearest integer, a half rounded up
RoundDiv(a, b) == (2 * a + b) \div (2 * b)

\* Math.sin and Math.cos on [0, PI/4], angles and values in ten-thousandths, by
\* their Taylor polynomials
sinSeries(x) ==
  LET x2 == RoundDiv(x * x, Unit)
      x4 == RoundDiv(x2 * x2, Unit)
  IN  x - RoundDiv(x * x2, 6 * Unit) + RoundDiv(x * x4, 120 * Unit)

cosSeries(x) ==
  LET x2 == RoundDiv(x * x, Unit)
      x4 == RoundDiv(x2 * x2, Unit)
      x6 == RoundDiv(x4 * x2, Unit)
  IN  Unit - RoundDiv(x2, 2) + RoundDiv(x4, 24) - RoundDiv(x6, 720)

\* Math.cos and Math.sin on [0, PI/2], reduced to [0, PI/4]
cos(angle) ==
  IF 4 * angle <= PiUnits THEN cosSeries(angle) ELSE sinSeries(RoundDiv(PiUnits, 2) - angle)

sin(angle) ==
  IF 4 * angle <= PiUnits THEN sinSeries(angle) ELSE cosSeries(RoundDiv(PiUnits, 2) - angle)

\* applyAudioEffects: angle = ((pan + 1) / 2) * (Math.PI / 2)
panAngle(p) == ((p + Unit) * PiUnits) \div (4 * Unit)

leftGain(p) == cos(panAngle(p))

rightGain(p) == sin(panAngle(p))

\* applyAudioEffects: Math.abs(pan) > 0.01
isPanning(p) == (IF p < 0 THEN -p ELSE p) > PanThreshold

\* the pan gains applied to the first two channels of any buffer, mono and
\* multichannel included
totalGain_PanEveryLayout(vol, p, ch, outputChannels) ==
  LET channelPanGain == IF ch = 0 THEN leftGain(p)
                        ELSE IF ch = 1 THEN rightGain(p)
                        ELSE Unit
  IN  RoundDiv(vol * channelPanGain, Unit)

\* applyAudioEffects, apply loop: volume * channelPanGain for channel ch of a
\* buffer of outputChannels channels
totalGain(vol, p, ch, outputChannels) ==
  LET channelPanGain == IF outputChannels = 2 /\ ch = 0 THEN leftGain(p)
                        ELSE IF outputChannels = 2 /\ ch = 1 THEN rightGain(p)
                        ELSE Unit
  IN  RoundDiv(vol * channelPanGain, Unit)

\* applyAudioEffects, apply loop: channelData[i] *= gain over the region
applyGain(channelData, gain, startFrame, endFrame) ==
  [i \in 1..Len(channelData) |->
     IF startFrame < endFrame /\ i > startFrame /\ i <= endFrame
     THEN RoundDiv(channelData[i] * gain, Unit)
     ELSE channelData[i]]

applyAudioEffects(buffer, startT, endT, vol, p) ==
  LET rate        == buffer.sampleRate
      totalFrames == length(buffer)
      startFrame  == ClampFrame(startT, rate, totalFrames)
      endFrame    == ClampFrame(endT, rate, totalFrames)
      workingBuffer == IF numberOfChannels(buffer) = 1 /\ isPanning(p)
                       THEN ensureStereo(buffer) ELSE buffer
      outputChannels == numberOfChannels(workingBuffer)
      newBuffer   == createBuffer(outputChannels, length(workingBuffer), rate)
      NewChannel(ch) ==
        LET copied == set(getChannelData(newBuffer, ch), getChannelData(workingBuffer, ch), 0)
        IN  IF copied = <<>> THEN copied
            ELSE applyGain(copied, totalGain(vol, p, ch, outputChannels),
                           startFrame, endFrame)
  IN  Written(newBuffer, [c \in 1..outputChannels |-> NewChannel(c - 1)])

(* ----------------------------- WAV encoder ----------------------------- *)

\* DataView.setUint8(offset, v)
setUint8(view, offset, v) == [view EXCEPT ![offset + 1] = v % 256]

\* DataView.setUint16(offset, v, true): little-endian
setUint16(view, offset, v) ==
  setUint8(setUint8(view, offset, v), offset + 1, v \div 256)

\* DataView.setUint32(offset, v, true): little-endian
setUint32(view, offset, v) ==
  setUint16(setUint16(view, offset, v), offset + 2, v \div 65536)

\* writeString: the char codes of string from offset on
writeString(view, offset, string) ==
  [j \in 1..Len(view) |->
     IF j > offset /\ j <= offset + Len(string) THEN string[j - offset] % 256 ELSE view[j]]

\* 'RIFF', 'WAVE', 'fmt ' and 'data' as char codes
RIFF == <<82, 73, 70, 70>>

WAVE == <<87, 65, 86, 69>>

fmt == <<102, 109, 116, 32>>

data == <<100, 97, 116, 97>>

\* the 44 of bufferToWave: the header size and the offset of the samples
HeaderBytes == 44

\* 0x8000 and 0x7FFF
NegativeScale == 32768

PositiveScale == 32767

\* the store of the number n / d into an Int16Array element rounding to the
\* nearest integer
ToInt16_Rounds(n, d) ==
  LET r == RoundDiv(n, d)
  IN  ((r + 32768) % 65536) - 32768

\* the store of the number n / d (d > 0) into an Int16Array element: the
\* fraction is dropped (truncation toward zero), then the value wraps to 16 bits
ToInt16(n, d) ==
  LET truncated == IF n >= 0 THEN n \div d ELSE -((-n) \div d)
  IN  ((truncated + 32768) % 65536) - 32768

\* bufferToWave, conversion loop: the int16 stored for a sample
floatToPcm(sample) ==
  LET s == Max(-Unit, Min(Unit, sample))
  IN  ToInt16(IF s < 0 THEN s * NegativeScale ELSE s * PositiveScale, Unit)

\* the samples written channel after channel
pcmSource_Planar(pcmIdx, numOfChan, len) ==
  [i |-> pcmIdx % len, ch |-> pcmIdx \div len]

\* bufferToWave, conversion loop: the frame i and channel ch whose sample is
\* stored at pcmIdx
pcmSource(pcmIdx, numOfChan, len) ==
  [i |-> pcmIdx \div numOfChan, ch |-> pcmIdx % numOfChan]

\* the two bytes of an Int16Array element with the high byte first
int16Byte_BigEndian(v, k) ==
  LET u == (v + 65536) % 65536
  IN  IF k = 0 THEN u \div 256 ELSE u % 256

\* byte k (0 or 1) of an Int16Array element holding v, little-endian
int16Byte(v, k) ==
  LET u == (v + 65536) % 65536
  IN  IF k = 0 THEN u % 256 ELSE u \div 256

Blob(bytes, type) == [type |-> type, bytes |-> bytes]

bufferToWave(abuffer, len) ==
  LET numOfChan == numberOfChannels(abuffer)
      byteLength == len * numOfChan * 2 + HeaderBytes
      buffer == [j \in 1..byteLength |-> 0]
      v1  == writeString(buffer, 0, RIFF)
      v2  == setUint32(v1, 4, 36 + len * numOfChan * 2)
      v3  == writeString(v2, 8, WAVE)
      v4  == writeString(v3, 12, fmt)
      v5  == setUint32(v4, 16, 16)
      v6  == setUint16(v5, 20, 1)
      v7  == setUint16(v6, 22, numOfChan)
      v8  == setUint32(v7, 24, abuffer.sampleRate)
      v9  == setUint32(v8, 28, abuffer.sampleRate * 2 * numOfChan)
      v10 == setUint16(v9, 32, numOfChan * 2)
      v11 == setUint16(v10, 34, 16)
      v12 == writeString(v11, 36, data)
      view == setUint32(v12, 40, len * numOfChan * 2)
      offset == HeaderBytes
      pcmData(pcmIdx) ==
        LET at == pcmSource(pcmIdx, numOfChan, len)
        IN  floatToPcm(getChannelData(abuffer, at.ch)[at.i + 1])
  IN  Blob([j \in 1..byteLength |->
              IF j <= offset THEN view[j]
              ELSE int16Byte(pcmData((j - offset - 1) \div 2), (j - offset - 1) % 2)],
           "audio/wav")

\* padAudioBuffer: extraSeconds of silence after the buffer
padAudioBuffer(originalBuffer, extraT) ==
  LET rate        == originalBuffer.sampleRate
      extraFrames == Floor(extraT, rate)
      totalLength == length(originalBuffer) + extraFrames
      nCh         == numberOfChannels(originalBuffer)
      newBuffer   == createBuffer(nCh, totalLength, rate)
  IN  Written(newBuffer,
              [c \in 1..nCh |-> set(getChannelData(newBuffer, c - 1),
                                    getChannelData(originalBuffer, c - 1), 0)])

(* -------------------------------- mixer -------------------------------- *)

\* mixAllTracks, step 1: the longest non-muted track, 0 when there is none
mixMaxLength(ts) ==
  LET lengths == { length(ts[k].buffer) : k \in { j \in 1..Len(ts) : ~ts[j].isMuted } }
  IN  IF lengths = {} THEN 0 ELSE CHOOSE m \in lengths : \A l \in lengths : l <= m

\* a muted track added to the mix like any other
mixContribution_IgnoresMute(t, ch, i) ==
  IF i >= length(t.buffer) THEN 0
  ELSE IF ch = 1 /\ numberOfChannels(t.buffer) > 1
       THEN getChannelData(t.buffer, 1)[i + 1]
       ELSE getChannelData(t.buffer, 0)[i + 1]

\* mixAllTracks, step 2: what track t adds to frame i (0-based) of output
\* channel ch: nothing when muted or past its end, its channel ch, or its
\* channel 0 for the right side of a mono track
mixContribution(t, ch, i) ==
  IF t.isMuted \/ i >= length(t.buffer) THEN 0
  ELSE IF ch = 1 /\ numberOfChannels(t.buffer) > 1
       THEN getChannelData(t.buffer, 1)[i + 1]
       ELSE getChannelData(t.buffer, 0)[i + 1]

\* the significand of an element of a Float32Array, in bits
SignificandBits == 24

\* the distance between the 32-bit floats next to a, for a counted in units:
\* 1 below 2^24 units, doubling with every doubling of a
RECURSIVE float32Step(_)
float32Step(a) == IF a < 2 ^ SignificandBits THEN 1 ELSE 2 * float32Step(a \div 2)

\* the store of x into a Float32Array: x rounded to the nearest 32-bit
\* float, a tie to the one with the even significand.  The samples of the
\* model are whole units, so the floats are placed on the units: every
\* magnitude below 2^24 units is held exactly.
fround(x) ==
  LET a     == Abs(x)
      step  == float32Step(a)
      below == (a \div step) * step
      rest  == a - below
      near  == IF 2 * rest < step THEN below
               ELSE IF 2 * rest > step THEN below + step
               ELSE IF (below \div step) % 2 = 0 THEN below ELSE below + step
  IN  IF x < 0 THEN -near ELSE near

\* mixAllTracks, step 2: the accumulator after the first n tracks, every
\* leftOut[i] += leftIn[i] a store into the Float32Array of tempBuffer
RECURSIVE mixSum(_, _, _, _)
mixSum(ts, n, ch, i) ==
  IF n = 0 THEN 0 ELSE fround(mixSum(ts, n - 1, ch, i) + mixContribution(ts[n], ch, i))

\* the limiter clipping above full scale only
hardClip_PositiveOnly(x) == IF x > Unit THEN Unit ELSE x

\* mixAllTracks, step 3: if (x > 1) x = 1; if (x < -1) x = -1
hardClip(x) == IF x > Unit THEN Unit ELSE IF x < -Unit THEN -Unit ELSE x

\* the 0.0001 of the silence detection
SilenceThreshold == Unit \div 10000

\* the silence detection counting a sample at the threshold as sound
isNonSilent_AtThreshold(l, r) == Abs(l) >= SilenceThreshold \/ Abs(r) >= SilenceThreshold

\* mixAllTracks, step 3: Math.abs(l) > 0.0001 || Math.abs(r) > 0.0001
isNonSilent(l, r) == Abs(l) > SilenceThreshold \/ Abs(r) > SilenceThreshold

\* mixAllTracks, step 3: the last frame index (0-based) assigned to
\* lastNonZeroFrame, which starts at 0
lastNonZeroFrame(leftOut, rightOut) ==
  LET sounding == { i \in 0..(Len(leftOut) - 1) : isNonSilent(leftOut[i + 1], rightOut[i + 1]) }
  IN  IF sounding = {} THEN 0 ELSE CHOOSE m \in sounding : \A i \in sounding : i <= m

\* Math.floor(sampleRate * 0.5)
halfSecond(rate) == (rate * 5) \div 10

mixAllTracks(ts, rate) ==
  LET maxLength == mixMaxLength(ts)
      leftOut   == [i \in 1..maxLength |-> hardClip(mixSum(ts, Len(ts), 0, i - 1))]
      rightOut  == [i \in 1..maxLength |-> hardClip(mixSum(ts, Len(ts), 1, i - 1))]
      trimEnd   == Min(maxLength, lastNonZeroFrame(leftOut, rightOut) + halfSecond(rate))
      finalBuffer == createBuffer(2, trimEnd, rate)
  IN  IF maxLength = 0 \/ trimEnd = 0 THEN createBuffer(2, 1, rate)
      ELSE Written(finalBuffer,
                   << set(getChannelData(finalBuffer, 0), subarray(leftOut, 0, trimEnd), 0),
                      set(getChannelData(finalBuffer, 1), subarray(rightOut, 0, trimEnd), 0) >>)

(* ------------------------------- inputs -------------------------------- *)

\* the channel that differs from a on every frame
Mirror(a) == [i \in 1..Len(a) |-> Unit - a[i]]

\* a buffer of n channels over the array base: dual-mono (every channel a copy
\* of channel 0) or, when alternate, the odd channels differing from channel 0
\* on every frame
Layout(base, n, alternate) ==
  AudioBuffer([c \in 1..n |-> IF alternate /\ c % 2 = 0 THEN Mirror(base) ELSE base],
              SampleRate)

\* the track buffers: channel 0 is any sequence over the sample set
Targets ==
  { Layout(base, n, alternate) :
      base \in UNION { [1..len -> Samples] : len \in 1..MaxLen },
      n \in 1..MaxChannels, alternate \in BOOLEAN }

\* the arrays of the pasted buffers: full scale throughout, or full scale and
\* silence in turn
PasteArrays ==
  UNION { { [i \in 1..len |-> Unit], [i \in 1..len |-> IF i % 2 = 1 THEN Unit ELSE 0] } :
          len \in 1..MaxPasteLen }

Pastes ==
  { Layout(base, n, alternate) :
      base \in PasteArrays, n \in 1..MaxChannels, alternate \in BOOLEAN }

NoPaste == createBuffer(1, 1, SampleRate)

\* the samples of the mixed tracks: silence, a sample at the silence
\* threshold, one just above it, and 0.8
MixSamples == {0, SilenceThreshold, SilenceThreshold + 1, (8 * Unit) \div 10}

Negated(a) == [i \in 1..Len(a) |-> -a[i]]

\* the mixed buffers: mono, or stereo with the right channel the left one
\* negated
MixBuffers ==
  LET arrays == UNION { [1..len -> MixSamples] : len \in 1..MaxTrackLen }
  IN  { AudioBuffer(<<a>>, SampleRate) : a \in arrays }
      \cup { AudioBuffer(<<a, Negated(a)>>, SampleRate) : a \in arrays }

MixTracks == [buffer : MixBuffers, isMuted : BOOLEAN]

\* no track, one track or two
TrackLists == {<<>>} \cup { <<t>> : t \in MixTracks } \cup (MixTracks \X MixTracks)

\* the samples of the tracks whose order is changed: a sample above the
\* silence threshold, and on both sides of 0 a sample so large that the
\* 32-bit floats next to it are four units apart
OrderSamples == {2 * SilenceThreshold, 2 ^ (SignificandBits + 1), -(2 ^ (SignificandBits + 1))}

\* mono buffers that hold one sample throughout, or silence and then the
\* sample on their last frame
OrderBuffers ==
  { AudioBuffer(<<[i \in 1..len |-> IF lead \/ i = len THEN s ELSE 0]>>, SampleRate) :
      len \in 1..MaxTrackLen, s \in OrderSamples, lead \in BOOLEAN }

OrderTracks == [buffer : OrderBuffers, isMuted : BOOLEAN]

\* three tracks
OrderTrackLists == OrderTracks \X OrderTracks \X OrderTracks

\* AudioContext.sampleRate: half a second is floor(rate / 2) frames
ContextRates == {SampleRate, 2 * SampleRate}

\* the samples given to the encoder: beyond full scale on both sides, full
\* scale, thirds, halves, nine tenths and the smallest samples
WavSamples ==
  {-2 * Unit, -Unit, -(Unit \div 3), -1, 0, 1, Unit \div 2, (9 * Unit) \div 10, Unit, 2 * Unit}

\* the sample rates written to the header: the rate of the model and 44.1 kHz
WavRates == {SampleRate, 44100}

\* the encoded buffers: channel 0 any sequence of samples, the odd channels
\* channel 0 negated
WavBuffers ==
  { AudioBuffer([c \in 1..n |-> IF c % 2 = 0 THEN Negated(base) ELSE base], rate) :
      base \in UNION { [1..len -> WavSamples] : len \in 1..MaxWavLen },
      n \in 1..MaxChannels, rate \in WavRates }

\* no Blob yet
NoWave == Blob(<<>>, "")

(* -------------------------------- export ------------------------------- *)

ExportFormats == {"wav", "mp3", "mp4", "webm"}

\* the platforms: the lamejs encoder works or throws, and MediaRecorder
\* supports any of the two container types
Platforms == [encoderWorks : BOOLEAN, supported : SUBSET {"audio/mp4", "audio/webm"}]

DefaultPlatform == [encoderWorks |-> TRUE, supported |-> {"audio/mp4", "audio/webm"}]

\* no export has been asked for.  Of a capture, received is the sizes of the
\* data events in arrival order, chunks the array the handlers fill (a chunk
\* is named by its arrival number), blob the chunks of the delivered Blob and
\* log the calls and events of the capture in the order they happened.
NoExport ==
  [format |-> "none", encoderInvoked |-> FALSE, mimeType |-> "", recorder |-> "none",
   playback |-> "idle", promise |-> "none", blobType |-> "", error |-> "",
   received |-> <<>>, chunks |-> <<>>, blob |-> <<>>, log |-> <<>>]

\* every chunk kept, the empty ones too
keepChunk_Any(chunks, id, size) == Append(chunks, id)

\* recorder.ondataavailable: if (e.data.size > 0) chunks.push(e.data)
keepChunk(chunks, id, size) == IF size > 0 THEN Append(chunks, id) ELSE chunks

\* a promise that every call of resolve or reject settles anew
settle_Again(promise, outcome) == outcome

\* resolve and reject of a Promise: only the first call settles it
settle(promise, outcome) == IF promise = "pending" THEN outcome ELSE promise

\* the container always WebM
captureMimeType_WebmOnly(format, supported) == "audio/webm"

\* exportAudio: the mimeType given to the MediaRecorder
captureMimeType(format, supported) ==
  IF format = "mp4" /\ "audio/mp4" \in supported THEN "audio/mp4"
  ELSE IF format = "mp4" /\ "audio/webm" \in supported THEN "audio/webm"
  ELSE "audio/webm"

\* exportAudio up to its return: the promise resolved with the Blob of
\* bufferToWave or bufferToMp3, rejected with what bufferToMp3 or the
\* MediaRecorder constructor (an unsupported mimeType) threw, or pending on
\* the capture it has started
exportAudio(format, plat) ==
  IF format = "wav"
  THEN [NoExport EXCEPT !.format = format, !.promise = "resolved", !.blobType = "audio/wav"]
  ELSE IF format = "mp3"
  THEN IF plat.encoderWorks
       THEN [NoExport EXCEPT !.format = format, !.encoderInvoked = TRUE,
                             !.promise = "resolved", !.blobType = "audio/mp3"]
       ELSE [NoExport EXCEPT !.format = format, !.encoderInvoked = TRUE,
                             !.promise = "rejected", !.error = "Mp3Encoder"]
  ELSE LET mimeType == captureMimeType(format, plat.supported)
       IN  IF mimeType \notin plat.supported
           THEN [NoExport EXCEPT !.format = format, !.mimeType = mimeType,
                                 !.promise = "rejected", !.error = "NotSupportedError"]
           ELSE [NoExport EXCEPT !.format = format, !.mimeType = mimeType,
                                 !.recorder = "recording", !.playback = "playing",
                                 !.promise = "pending",
                                 !.log = <<"recorder.start", "source.start">>]

(* ------------------------------- storage ------------------------------- *)

\* the operation writing into the storage of its first input
writtenRef_FirstInput(h, refs) == refs[1]

\* the storage every operation writes and returns: the buffer it has just
\* created with audioContext.createBuffer, a new place of the heap (every
\* set, fill and assignment of the operations goes through getChannelData of
\* that buffer; the workingBuffer of ensureStereo, which is the input itself
\* when it has two channels or more, is only read)
writtenRef(h, refs) == Len(h) + 1

\* the heap after the channel arrays of ref have been written
store(h, ref, buffer) ==
  IF ref > Len(h) THEN Append(h, buffer) ELSE [h EXCEPT ![ref] = buffer]

\* the buffers the heap starts with
HeapBuffers == { Layout(<<Unit, 0>>, n, TRUE) : n \in 1..MaxChannels }

\* the first frame, the empty region, a reversed region, a region that starts
\* before the buffer, and a region that ends past the end of every buffer of
\* the heap (the buffers at most double with every call)
HeapRegions ==
  { <<0, TicksPerFrame>>, <<0, 0>>, <<TicksPerFrame, 0>>, <<-1, TicksPerFrame>>,
    <<0, (2 ^ (MaxHeap + 1)) * TicksPerFrame>> }

\* the times of an insertion or a paste: before the buffer, inside the first
\* buffers, and at the end of the first buffers
HeapTimes == {-1, TicksPerFrame, 2 * TicksPerFrame}

NoHeap ==
  /\ heap = <<>>
  /\ inputRefs = {}
  /\ resultRef = 0

(* ----------------------- microphone recording -------------------------- *)

\* the tracks of the application
TrackIds == {1, 2}

\* the time at which a recording is placed: the second frame of the track
StudioTimes == {TicksPerFrame}

\* channelMode of the editor of a track when its record button is clicked
EditorMode(trackId) == IF trackId = 1 THEN "stereo" ELSE "left"

\* handleAddTrack: a track holds its decoded file, mono or stereo, and the
\* work margin
StudioBuffers ==
  { padAudioBuffer(Layout(<<Unit, 0>>, n, TRUE), WORKSPACE_PADDING_SECONDS * TicksPerSecond) :
      n \in {1, 2} }

\* ctx.decodeAudioData of the Blob of the chunks: a mono buffer of one
\* full-scale frame for every chunk; a Blob of no chunk is no audio file and
\* the decoding is rejected
decodeAudioData(chunks) ==
  IF chunks = <<>> THEN Thrown("EncodingError")
  ELSE AudioBuffer(<<[i \in 1..Len(chunks) |-> Unit]>>, SampleRate)

\* mediaRecorder.onstop, insertMode 'stereo': the track grown to hold the
\* recording, copied, and on every channel overwritten from startFrame on
\* with the channel i % recorded.numberOfChannels of the recording (an
\* element outside the array is not written)
recordOverwrite(targetBuffer, recordedBuffer, insertTime) ==
  LET rate        == targetBuffer.sampleRate
      startFrame  == Floor(insertTime, rate)
      endFrame    == startFrame + length(recordedBuffer)
      newTotalLength == Max(length(targetBuffer), endFrame)
      nCh         == numberOfChannels(targetBuffer)
      newBuffer   == createBuffer(nCh, newTotalLength, rate)
      Channel(i)  ==
        LET copied  == set(getChannelData(newBuffer, i), getChannelData(targetBuffer, i), 0)
            srcData == getChannelData(recordedBuffer, i % numberOfChannels(recordedBuffer))
        IN  [k \in 1..Len(copied) |->
               IF k - 1 >= startFrame /\ k - 1 < endFrame
               THEN srcData[k - startFrame] ELSE copied[k]]
  IN  Written(newBuffer, [c \in 1..nCh |-> Channel(c - 1)])

\* mediaRecorder.onstop: the buffer given to updateTrackBuffer
spliceRecording(targetBuffer, recordedBuffer, insertTime, insertMode) ==
  padAudioBuffer(IF insertMode = "stereo"
                 THEN recordOverwrite(targetBuffer, recordedBuffer, insertTime)
                 ELSE pasteAudioToChannel(targetBuffer, recordedBuffer, insertTime, insertMode),
                 WORKSPACE_PADDING_SECONDS * TicksPerSecond)

\* the sequence q without its element k
Without(q, k) == [i \in 1..(Len(q) - 1) |-> IF i < k THEN q[i] ELSE q[i + 1]]

\* The state of App: the track buffers, recordingTrackId (0 for null), the
\* refs (mediaRecorderRef numbers a recorder, 0 for null; a chunk of
\* recordedChunksRef is named by the recorder it came from), the calls of
\* handleRecordToggle that wait for getUserMedia and the MediaRecorders
\* created, each with the tracks of the render its handler closed over, and
\* the number of clicks, data events and edits so far.
NoStudio ==
  [tracks |-> <<>>, recordingTrackId |-> 0, mediaRecorderRef |-> 0,
   recordedChunksRef |-> <<>>, recordingStartTimeRef |-> 0,
   recordingChannelModeRef |-> "stereo", requests |-> <<>>, recorders |-> <<>>,
   events |-> 0]

(* ----------------------------- operations ------------------------------ *)

Init ==
  /\ op = "none"
  /\ target \in Targets
  /\ paste = NoPaste
  /\ start = 0
  /\ end = 0
  /\ mode = "stereo"
  /\ volume = Unit
  /\ pan = 0
  /\ result = target
  /\ tracks = <<>>
  /\ contextRate = SampleRate
  /\ wave = NoWave
  /\ NoHeap
  /\ platform = DefaultPlatform
  /\ export = NoExport
  /\ studio = NoStudio

EnsureStereo ==
  /\ op = "none"
  /\ op' = "ensureStereo"
  /\ volume' = Unit
  /\ pan' = 0
  /\ result' = ensureStereo(target)
  /\ paste' = NoPaste
  /\ start' = 0
  /\ end' = 0
  /\ mode' = "stereo"
  /\ UNCHANGED target
  /\ UNCHANGED others

CutRegion ==
  \E s \in Times, e \in Times, m \in Modes :
    /\ op = "none"
    /\ op' = "cut"
    /\ volume' = Unit
    /\ pan' = 0
    /\ start' = s
    /\ end' = e
    /\ mode' = m
    /\ result' = cutAudioRegion(target, s, e, m)
    /\ paste' = NoPaste
    /\ UNCHANGED target
    /\ UNCHANGED others

ExtractRegion ==
  \E s \in Times, e \in Times, m \in Modes :
    /\ op = "none"
    /\ op' = "extract"
    /\ volume' = Unit
    /\ pan' = 0
    /\ start' = s
    /\ end' = e
    /\ mode' = m
    /\ result' = extractAudioRegion(target, s, e, m)
    /\ paste' = NoPaste
    /\ UNCHANGED target
    /\ UNCHANGED others

ApplyEffects ==
  \E s \in Times, e \in Times, v \in Volumes, p \in Pans :
    /\ op = "none"
    /\ op' = "applyEffects"
    /\ start' = s
    /\ end' = e
    /\ volume' = v
    /\ pan' = p
    /\ result' = applyAudioEffects(target, s, e, v, p)
    /\ mode' = "stereo"
    /\ paste' = NoPaste
    /\ UNCHANGED target
    /\ UNCHANGED others

Concatenate ==
  \E p \in Pastes :
    /\ op = "none"
    /\ op' = "concatenate"
    /\ volume' = Unit
    /\ pan' = 0
    /\ paste' = p
    /\ result' = concatenateAudioBuffers(target, p)
    /\ start' = 0
    /\ end' = 0
    /\ mode' = "stereo"
    /\ UNCHANGED target
    /\ UNCHANGED others

Insert ==
  \E p \in Pastes, t \in Times :
    /\ op = "none"
    /\ op' = "insert"
    /\ volume' = Unit
    /\ pan' = 0
    /\ paste' = p
    /\ start' = t
    /\ result' = insertAudioBuffer(target, p, t)
    /\ end' = 0
    /\ mode' = "stereo"
    /\ UNCHANGED target
    /\ UNCHANGED others

PasteToChannel ==
  \E p \in Pastes, t \in Times, m \in Modes :
    /\ op = "none"
    /\ op' = "pasteToChannel"
    /\ volume' = Unit
    /\ pan' = 0
    /\ paste' = p
    /\ start' = t
    /\ mode' = m
    /\ result' = pasteAudioToChannel(target, p, t, m)
    /\ end' = 0
    /\ UNCHANGED target
    /\ UNCHANGED others

\* App.updateTrackBuffer: the result of an edit becomes the track's buffer,
\* on which the next edit is made (kept within the bounds of the inputs).  The
\* track's blob, bufferToWave of the same buffer, is not kept in the state:
\* wave is the Blob of the encoder call BufferToWave alone.
updateTrackBuffer ==
  /\ op # "none"
  /\ result \in Targets
  /\ op' = "none"
  /\ volume' = Unit
  /\ pan' = 0
  /\ target' = result
  /\ result' = result
  /\ paste' = NoPaste
  /\ start' = 0
  /\ end' = 0
  /\ mode' = "stereo"
  /\ UNCHANGED others

\* the mixer is given any track list
InitMix ==
  /\ op = "none"
  /\ target = NoPaste
  /\ paste = NoPaste
  /\ start = 0
  /\ end = 0
  /\ mode = "stereo"
  /\ volume = Unit
  /\ pan = 0
  /\ result = NoPaste
  /\ tracks \in TrackLists
  /\ contextRate \in ContextRates
  /\ wave = NoWave
  /\ NoHeap
  /\ platform = DefaultPlatform
  /\ export = NoExport
  /\ studio = NoStudio

\* the mixer is given three tracks
InitMixOrder ==
  /\ op = "none"
  /\ target = NoPaste
  /\ paste = NoPaste
  /\ start = 0
  /\ end = 0
  /\ mode = "stereo"
  /\ volume = Unit
  /\ pan = 0
  /\ result = NoPaste
  /\ tracks \in OrderTrackLists
  /\ contextRate = SampleRate
  /\ wave = NoWave
  /\ NoHeap
  /\ platform = DefaultPlatform
  /\ export = NoExport
  /\ studio = NoStudio

MixAll ==
  /\ op = "none"
  /\ op' = "mixAll"
  /\ result' = mixAllTracks(tracks, contextRate)
  /\ UNCHANGED <<target, paste, start, end, mode, volume, pan, mixer, wave, storage, exporter, studio>>

\* the encoder is given any buffer
InitWav ==
  /\ op = "none"
  /\ target \in WavBuffers
  /\ paste = NoPaste
  /\ start = 0
  /\ end = 0
  /\ mode = "stereo"
  /\ volume = Unit
  /\ pan = 0
  /\ result = target
  /\ tracks = <<>>
  /\ contextRate = SampleRate
  /\ wave = NoWave
  /\ NoHeap
  /\ platform = DefaultPlatform
  /\ export = NoExport
  /\ studio = NoStudio

\* bufferToWave(buffer, buffer.length), as every caller calls it
BufferToWave ==
  /\ op = "none"
  /\ op' = "bufferToWave"
  /\ wave' = bufferToWave(target, length(target))
  /\ UNCHANGED <<target, paste, start, end, mode, volume, pan, result, mixer, storage, exporter, studio>>

\* the editor state of the specifications that work on the heap
InitHeap ==
  /\ op = "none"
  /\ target = NoPaste
  /\ paste = NoPaste
  /\ start = 0
  /\ end = 0
  /\ mode = "stereo"
  /\ volume = Unit
  /\ pan = 0
  /\ result = NoPaste
  /\ tracks = <<>>
  /\ contextRate = SampleRate
  /\ wave = NoWave
  /\ heap \in { <<b>> : b \in HeapBuffers }
  /\ inputRefs = {}
  /\ resultRef = 0
  /\ platform = DefaultPlatform
  /\ export = NoExport
  /\ studio = NoStudio

\* the call name(refs) has returned buffer (or thrown): what it wrote is
\* stored where the operation wrote it
Returns(name, refs, buffer) ==
  /\ Len(heap) < MaxHeap
  /\ op' = name
  /\ inputRefs' = { refs[k] : k \in 1..Len(refs) }
  /\ IF buffer.error = "none"
     THEN /\ heap' = store(heap, writtenRef(heap, refs), buffer)
          /\ resultRef' = writtenRef(heap, refs)
     ELSE /\ heap' = heap
          /\ resultRef' = 0
  /\ UNCHANGED <<target, paste, start, end, mode, volume, pan, result, mixer, wave, exporter, studio>>

HeapCut ==
  \E r \in 1..Len(heap), region \in HeapRegions, m \in Modes :
    Returns("cut", <<r>>, cutAudioRegion(heap[r], region[1], region[2], m))

HeapExtract ==
  \E r \in 1..Len(heap), region \in HeapRegions, m \in Modes :
    Returns("extract", <<r>>, extractAudioRegion(heap[r], region[1], region[2], m))

HeapConcatenate ==
  \E r1 \in 1..Len(heap), r2 \in 1..Len(heap) :
    Returns("concatenate", <<r1, r2>>, concatenateAudioBuffers(heap[r1], heap[r2]))

HeapInsert ==
  \E r1 \in 1..Len(heap), r2 \in 1..Len(heap), t \in HeapTimes :
    Returns("insert", <<r1, r2>>, insertAudioBuffer(heap[r1], heap[r2], t))

HeapPasteToChannel ==
  \E r1 \in 1..Len(heap), r2 \in 1..Len(heap), t \in HeapTimes, m \in Modes :
    Returns("pasteToChannel", <<r1, r2>>, pasteAudioToChannel(heap[r1], heap[r2], t, m))

HeapPad ==
  \E r \in 1..Len(heap), extra \in {0, TicksPerFrame} :
    Returns("pad", <<r>>, padAudioBuffer(heap[r], extra))

HeapApplyEffects ==
  \E r \in 1..Len(heap), region \in HeapRegions, p \in {0, Unit} :
    Returns("applyEffects", <<r>>,
            applyAudioEffects(heap[r], region[1], region[2], Unit \div 2, p))

HeapMixAll ==
  \E refs \in { <<r>> : r \in 1..Len(heap) } \cup ((1..Len(heap)) \X (1..Len(heap))) :
    Returns("mixAll", refs,
            mixAllTracks([k \in 1..Len(refs) |-> [buffer |-> heap[refs[k]], isMuted |-> FALSE]],
                         SampleRate))

\* the export is given a mixed-down buffer on any platform
InitExport ==
  /\ op = "none"
  /\ target \in HeapBuffers
  /\ paste = NoPaste
  /\ start = 0
  /\ end = 0
  /\ mode = "stereo"
  /\ volume = Unit
  /\ pan = 0
  /\ result = target
  /\ tracks = <<>>
  /\ contextRate = SampleRate
  /\ wave = NoWave
  /\ NoHeap
  /\ platform \in Platforms
  /\ export = NoExport
  /\ studio = NoStudio

ExportAudio ==
  \E format \in ExportFormats :
    /\ op = "none"
    /\ op' = "exportAudio"
    /\ export' = exportAudio(format, platform)
    /\ wave' = IF format = "wav" THEN bufferToWave(target, length(target)) ELSE wave
    /\ UNCHANGED <<target, paste, start, end, mode, volume, pan, result, mixer, storage, platform, studio>>

\* recorder.ondataavailable, for a chunk of any size, while the recorder
\* gathers data or is about to fire stop
RecorderOnDataAvailable ==
  \E size \in {0, 1} :
    /\ export.recorder \in {"recording", "stopping", "failed"}
    /\ Len(export.received) < MaxChunks
    /\ export' = [export EXCEPT !.received = Append(@, size),
                                 !.chunks = keepChunk(@, Len(export.received) + 1, size),
                                 !.log = Append(@, "dataavailable")]
    /\ UNCHANGED <<op, target, paste, start, end, mode, volume, pan, result, mixer, wave, storage, platform, studio>>

\* source.onended: recorder.stop(), after which the recorder fires stop; on
\* a recorder that has failed, and is inactive, stop() changes nothing
SourceEnded ==
  /\ export.playback = "playing"
  /\ export' = IF export.recorder = "recording"
                THEN [export EXCEPT !.playback = "ended", !.recorder = "stopping",
                                    !.log = @ \o <<"ended", "recorder.stop">>]
                ELSE [export EXCEPT !.playback = "ended", !.log = Append(@, "ended")]
  /\ UNCHANGED <<op, target, paste, start, end, mode, volume, pan, result, mixer, wave, storage, platform, studio>>

\* recorder.onstop: resolve(new Blob(chunks, {type: mimeType})), which a
\* settled promise ignores
RecorderOnStop ==
  /\ export.recorder \in {"stopping", "failed"}
  /\ LET promise == settle(export.promise, "resolved")
         fulfilled == promise = "resolved" /\ export.promise # "resolved"
     IN  export' = [export EXCEPT !.recorder = "inactive", !.promise = promise,
                                  !.blobType = IF fulfilled THEN export.mimeType ELSE @,
                                  !.blob = IF fulfilled THEN export.chunks ELSE @,
                                  !.log = @ \o <<"stop", "resolve">>]
  /\ UNCHANGED <<op, target, paste, start, end, mode, volume, pan, result, mixer, wave, storage, platform, studio>>

\* recorder.onerror: reject(e); the recorder that failed is inactive and
\* fires stop
RecorderOnError ==
  /\ export.recorder = "recording"
  /\ LET promise == settle(export.promise, "rejected")
     IN  export' = [export EXCEPT !.recorder = "failed", !.promise = promise,
                                  !.error = IF promise = "rejected" THEN "MediaRecorderError" ELSE @,
                                  !.log = @ \o <<"error", "reject">>]
  /\ UNCHANGED <<op, target, paste, start, end, mode, volume, pan, result, mixer, wave, storage, platform, studio>>

\* the application with its tracks loaded
InitStudio ==
  /\ op = "none"
  /\ target = NoPaste
  /\ paste = NoPaste
  /\ start = 0
  /\ end = 0
  /\ mode = "stereo"
  /\ volume = Unit
  /\ pan = 0
  /\ result = NoPaste
  /\ tracks = <<>>
  /\ contextRate = SampleRate
  /\ wave = NoWave
  /\ NoHeap
  /\ platform = DefaultPlatform
  /\ export = NoExport
  /\ studio \in { [NoStudio EXCEPT !.tracks = [id \in TrackIds |-> b]] : b \in StudioBuffers }

\* handleRecordToggle up to its await: on the track that is recording the
\* recorder of the ref is stopped (it is inactive at once and fires stop
\* later); on any other track a recording is begun and waits for the
\* microphone
handleRecordToggle ==
  \E trackId \in DOMAIN studio.tracks, t \in StudioTimes :
    /\ studio.events < MaxEvents
    /\ IF studio.recordingTrackId = trackId
       THEN LET r == studio.mediaRecorderRef
            IN  studio' = IF r # 0 /\ studio.recorders[r].state # "inactive"
                          THEN [studio EXCEPT !.recorders[r].state = "inactive",
                                              !.recorders[r].stopEvent = "queued",
                                              !.events = @ + 1]
                          ELSE [studio EXCEPT !.events = @ + 1]
       ELSE studio' = [studio EXCEPT
                         !.requests = Append(@, [trackId |-> trackId, start |-> t,
                                                 mode |-> EditorMode(trackId),
                                                 tracks |-> studio.tracks]),
                         !.events = @ + 1]
    /\ UNCHANGED <<op, target, paste, start, end, mode, volume, pan, result, mixer, wave, storage, exporter>>

\* handleRecordToggle after getUserMedia resolved: a new MediaRecorder in the
\* ref, the chunks emptied, the refs of start time and mode set, the
\* recorder started, recordingTrackId set
getUserMediaResolved ==
  \E k \in 1..Len(studio.requests) :
    LET q == studio.requests[k]
    IN  /\ studio' = [studio EXCEPT
              !.requests = Without(@, k),
              !.recorders = Append(@, [trackId |-> q.trackId, state |-> "recording",
                                       stopEvent |-> "none", tracks |-> q.tracks,
                                       kept |-> 0]),
              !.mediaRecorderRef = Len(studio.recorders) + 1,
              !.recordedChunksRef = <<>>,
              !.recordingStartTimeRef = q.start,
              !.recordingChannelModeRef = q.mode,
              !.recordingTrackId = q.trackId]
        /\ UNCHANGED <<op, target, paste, start, end, mode, volume, pan, result, mixer, wave, storage, exporter>>

\* handleRecordToggle after getUserMedia rejected: the catch block
getUserMediaRejected ==
  \E k \in 1..Len(studio.requests) :
    /\ studio' = [studio EXCEPT !.requests = Without(@, k)]
    /\ UNCHANGED <<op, target, paste, start, end, mode, volume, pan, result, mixer, wave, storage, exporter>>

\* mediaRecorder.ondataavailable of recorder r, every 100 ms while it records
\* and once more after stop(): a chunk with data is pushed to
\* recordedChunksRef.current (kept counts the chunks r has handed over)
mediaRecorderOnDataAvailable ==
  \E r \in 1..Len(studio.recorders), size \in {0, 1} :
    /\ studio.recorders[r].state = "recording" \/ studio.recorders[r].stopEvent = "queued"
    /\ studio.events < MaxEvents
    /\ studio' = [studio EXCEPT !.recordedChunksRef = keepChunk(@, r, size),
                                 !.recorders[r].kept = @ + size,
                                 !.events = @ + 1]
    /\ UNCHANGED <<op, target, paste, start, end, mode, volume, pan, result, mixer, wave, storage, exporter>>

\* mediaRecorder.onstop of recorder r: recordingTrackId is null, the chunks
\* of the ref are decoded, and the recording is put into the buffer of the
\* track found in the tracks of the handler's closure, at the time and in the
\* mode of the refs; updateTrackBuffer replaces the buffer of that track.  A
\* rejected decoding is caught and changes no track.
mediaRecorderOnStop ==
  \E r \in 1..Len(studio.recorders) :
    LET rec            == studio.recorders[r]
        recordedBuffer == decodeAudioData(studio.recordedChunksRef)
        targetTrack    == rec.tracks[rec.trackId]
        insertTime     == studio.recordingStartTimeRef
        insertMode     == studio.recordingChannelModeRef
    IN  /\ rec.stopEvent = "queued"
        /\ studio' = [studio EXCEPT
              !.recordingTrackId = 0,
              !.recorders[r].stopEvent = "handled",
              !.recorders[r].tracks = <<>>,
              !.tracks = IF recordedBuffer.error = "none"
                         THEN [@ EXCEPT ![rec.trackId] =
                                 spliceRecording(targetTrack, recordedBuffer,
                                                 insertTime, insertMode)]
                         ELSE @]
        /\ UNCHANGED <<op, target, paste, start, end, mode, volume, pan, result, mixer, wave, storage, exporter>>

\* the microphone has been asked for: the edits of the model are those made
\* from then on
MicrophoneInUse == studio.requests # <<>> \/ studio.recorders # <<>>

\* handleCutRegion on the first frame of a track
handleCutRegion ==
  \E trackId \in DOMAIN studio.tracks, m \in {"stereo"} :
    /\ MicrophoneInUse
    /\ studio.events < MaxEvents
    /\ studio' = [studio EXCEPT
          !.tracks[trackId] = cutAudioRegion(@, 0, TicksPerFrame, m),
          !.events = @ + 1]
    /\ UNCHANGED <<op, target, paste, start, end, mode, volume, pan, result, mixer, wave, storage, exporter>>

\* handleApplyEffects, half the volume on the first frame of a track
handleApplyEffects ==
  \E trackId \in DOMAIN studio.tracks :
    /\ MicrophoneInUse
    /\ studio.events < MaxEvents
    /\ studio' = [studio EXCEPT
          !.tracks[trackId] = applyAudioEffects(@, 0, TicksPerFrame, Unit \div 2, 0),
          !.events = @ + 1]
    /\ UNCHANGED <<op, target, paste, start, end, mode, volume, pan, result, mixer, wave, storage, exporter>>

Next ==
  \/ EnsureStereo
  \/ CutRegion
  \/ ExtractRegion
  \/ ApplyEffects
  \/ Concatenate
  \/ Insert
  \/ PasteToChannel
  \/ MixAll
  \/ BufferToWave
  \/ updateTrackBuffer
  \/ HeapCut
  \/ HeapExtract
  \/ HeapConcatenate
  \/ HeapInsert
  \/ HeapPasteToChannel
  \/ HeapPad
  \/ HeapApplyEffects
  \/ HeapMixAll
  \/ ExportAudio
  \/ RecorderOnDataAvailable
  \/ SourceEnded
  \/ RecorderOnStop
  \/ RecorderOnError
  \/ handleRecordToggle
  \/ getUserMediaResolved
  \/ getUserMediaRejected
  \/ mediaRecorderOnDataAvailable
  \/ mediaRecorderOnStop
  \/ handleCutRegion
  \/ handleApplyEffects

Spec == Init /\ [][Next]_vars

\* the Region Editor alone
NextRegion ==
  \/ EnsureStereo
  \/ CutRegion
  \/ ExtractRegion
  \/ updateTrackBuffer

SpecRegion == Init /\ [][NextRegion]_vars

\* the Buffer Compositor alone
NextCompose ==
  \/ Concatenate
  \/ Insert
  \/ PasteToChannel
  \/ updateTrackBuffer

SpecCompose == Init /\ [][NextCompose]_vars

\* the operations that take region or insertion coordinates and clamp them
NextClamp ==
  \/ CutRegion
  \/ ExtractRegion
  \/ ApplyEffects
  \/ Insert
  \/ updateTrackBuffer

SpecClamp == Init /\ [][NextClamp]_vars

\* the Effects Processor alone
NextEffects ==
  \/ ApplyEffects
  \/ updateTrackBuffer

SpecEffects == Init /\ [][NextEffects]_vars

\* the Mixer alone
NextMix ==
  \/ MixAll

SpecMix == InitMix /\ [][NextMix]_vars

\* the Mixer on three tracks
SpecMixOrder == InitMixOrder /\ [][NextMix]_vars

\* the WAV encoder alone
NextWav ==
  \/ BufferToWave

SpecWav == InitWav /\ [][NextWav]_vars

\* the exported operations over buffers with an identity
NextHeap ==
  \/ HeapCut
  \/ HeapExtract
  \/ HeapConcatenate
  \/ HeapInsert
  \/ HeapPasteToChannel
  \/ HeapPad
  \/ HeapApplyEffects
  \/ HeapMixAll

SpecHeap == InitHeap /\ [][NextHeap]_vars

\* the export alone
NextExport ==
  \/ ExportAudio
  \/ RecorderOnDataAvailable
  \/ SourceEnded
  \/ RecorderOnStop
  \/ RecorderOnError

SpecExport == InitExport /\ [][NextExport]_vars

\* the application: recordings and the edits made meanwhile
NextStudio ==
  \/ handleRecordToggle
  \/ getUserMediaResolved
  \/ getUserMediaRejected
  \/ mediaRecorderOnDataAvailable
  \/ mediaRecorderOnStop
  \/ handleCutRegion
  \/ handleApplyEffects

SpecStudio == InitStudio /\ [][NextStudio]_vars

\* the export on a platform where the playback of the buffer comes to its
\* end and the recorder delivers the stop event that follows stop() or an
\* error
SpecExportFair ==
  /\ InitExport
  /\ [][NextExport]_vars
  /\ WF_vars(SourceEnded)
  /\ WF_vars(RecorderOnStop)

(* ------------------------- vocabulary of the claims -------------------- *)

\* x clamped into [0, n]
Clamped(x, n) == IF x < 0 THEN 0 ELSE IF x > n THEN n ELSE x

\* a[from:to], 0-based and half-open
Slice(a, from, to) == SubSeq(a, from + 1, to)

\* the time of frame f, and the duration of a buffer, in ticks
FrameTime(f) == f * TicksPerFrame

Duration(b) == FrameTime(length(b))

FrameCount == length(target)

\* the region of the call, floor(seconds * sampleRate) clamped into [0, frameCount]
StartFrame == Clamped(Floor(start, target.sampleRate), FrameCount)

EndFrame == Clamped(Floor(end, target.sampleRate), FrameCount)

\* a mono buffer read as dual-mono, any other buffer as it is
Promoted(b) ==
  IF numberOfChannels(b) = 1
  THEN AudioBuffer(<<b.channels[1], b.channels[1]>>, b.sampleRate)
  ELSE b

\* channel c (1-based) of b under the up-mix-by-duplication rule: the channel
\* itself, or the single channel of a mono buffer for the second channel
HasUpMix(b, c) == c <= numberOfChannels(b) \/ (numberOfChannels(b) = 1 /\ c = 2)

UpMix(b, c) == IF c <= numberOfChannels(b) THEN b.channels[c] ELSE b.channels[1]

NonSilent(b) == \E c \in 1..numberOfChannels(b) : \E i \in 1..length(b) : b.channels[c][i] # 0

(* ------------------------------- claims -------------------------------- *)

\* C1: cutRegion in Stereo mode is a ripple delete: for clamped frames
\* 0 <= startFrame <= endFrame <= frameCount with at least one frame left,
\* the result has the input's channel count, length
\* frameCount - (endFrame - startFrame), and every channel equals
\* input[0:startFrame] ++ input[endFrame:frameCount].
C1_CutStereoRippleDelete ==
  (/\ op = "cut"
   /\ mode = "stereo"
   /\ StartFrame <= EndFrame
   /\ FrameCount - (EndFrame - StartFrame) >= 1)
  => /\ result.error = "none"
     /\ numberOfChannels(result) = numberOfChannels(target)
     /\ length(result) = FrameCount - (EndFrame - StartFrame)
     /\ \A c \in 1..numberOfChannels(target) :
          result.channels[c] = Slice(target.channels[c], 0, StartFrame)
                               \o Slice(target.channels[c], EndFrame, FrameCount)

\* a stereo cut strictly inside the buffer that removes audible frames
C1_Witness ==
  /\ op = "cut"
  /\ mode = "stereo"
  /\ 0 < StartFrame
  /\ StartFrame < EndFrame
  /\ EndFrame < FrameCount
  /\ length(result) = FrameCount - (EndFrame - StartFrame)
  /\ \E c \in 1..numberOfChannels(target) : target.channels[c][StartFrame + 1] # 0

ScenarioMono == AudioBuffer(<< <<5, -5, 0>> >>, SampleRate)

\* C3: cutRegion in Left or Right mode preserves the length of the (stereo
\* promoted) buffer, zeroes exactly the frames [startFrame, endFrame) of the
\* targeted channel (Left = 0, Right = 1) and leaves every other channel and
\* every frame outside the region equal to the input; mono [0.5, -0.5, 0.0]
\* cut over frame [0, 1) in Left mode gives channel 0 = [0.0, -0.5, 0.0] and
\* channel 1 = [0.5, -0.5, 0.0].
C3_CutChannelSilencesInPlace ==
  /\ (op = "cut" /\ mode \in {"left", "right"})
     => LET w   == Promoted(target)
            sel == IF mode = "left" THEN 1 ELSE 2
        IN  /\ result.error = "none"
            /\ numberOfChannels(result) = numberOfChannels(w)
            /\ length(result) = FrameCount
            /\ \A c \in 1..numberOfChannels(w) : \A i \in 1..FrameCount :
                 result.channels[c][i] =
                   IF c = sel /\ i > StartFrame /\ i <= EndFrame
                   THEN 0 ELSE w.channels[c][i]
  /\ (op = "cut" /\ mode = "left")
     => cutAudioRegion(ScenarioMono, FrameTime(0), FrameTime(1), "left").channels
          = << <<0, -5, 0>>, <<5, -5, 0>> >>

\* a Left cut of a mono buffer that silences an audible frame
C3_Witness ==
  /\ op = "cut"
  /\ mode = "left"
  /\ numberOfChannels(target) = 1
  /\ StartFrame < EndFrame
  /\ target.channels[1][StartFrame + 1] # 0
  /\ numberOfChannels(result) = 2
  /\ result.channels[1][StartFrame + 1] = 0
  /\ result.channels[2] = target.channels[1]

\* C4: a reversed region is treated as empty: cutRegion with
\* startFrame > endFrame (Stereo, Left or Right) returns a buffer with the
\* length and the samples of its input, never a longer buffer or duplicated
\* content.
C4_ReversedRegionIsNoOp ==
  (op = "cut" /\ StartFrame > EndFrame)
  => /\ result.error = "none"
     /\ length(result) = FrameCount
     /\ result = (IF mode = "stereo" THEN target ELSE Promoted(target))

\* C5: out-of-range coordinates are never an error: for any start/end
\* (negative, or beyond frameCount) cutRegion, extractRegion, applyEffects and
\* insert complete without failure and produce the result of the call with
\* each coordinate clamped into [0, frameCount].
C5_OutOfRangeIsClamped ==
  /\ op \in {"cut", "extract", "applyEffects", "insert"} => result.error = "none"
  /\ op = "cut"
     => result = cutAudioRegion(target, FrameTime(StartFrame), FrameTime(EndFrame), mode)
  /\ op = "extract"
     => result = extractAudioRegion(target, FrameTime(StartFrame), FrameTime(EndFrame), mode)
  /\ op = "applyEffects"
     => result = applyAudioEffects(target, FrameTime(StartFrame), FrameTime(EndFrame),
                                   volume, pan)
  /\ op = "insert"
     => result = insertAudioBuffer(target, paste, FrameTime(Clamped(Floor(start, target.sampleRate), FrameCount)))

\* an extraction that starts at a negative time and ends beyond the buffer
\* returns the whole audible buffer
C5_Witness ==
  /\ op = "extract"
  /\ mode = "stereo"
  /\ Floor(start, target.sampleRate) < 0
  /\ Floor(end, target.sampleRate) > FrameCount
  /\ FrameCount >= 2
  /\ result.error = "none"
  /\ result.channels = target.channels
  /\ NonSilent(result)

\* C6: extractRegion over a non-empty clamped region: in Stereo mode the
\* result has the input's channel count and every channel equals
\* input[startFrame:endFrame]; in Left/Right mode it is a single channel equal
\* to channel 0 / channel 1 over the region, a mono input read as dual-mono.
C6_ExtractCopiesRegion ==
  (op = "extract" /\ StartFrame < EndFrame)
  => /\ result.error = "none"
     /\ IF mode = "stereo"
        THEN /\ numberOfChannels(result) = numberOfChannels(target)
             /\ \A c \in 1..numberOfChannels(target) :
                  result.channels[c] = Slice(target.channels[c], StartFrame, EndFrame)
        ELSE /\ numberOfChannels(result) = 1
             /\ result.channels[1] =
                  Slice(Promoted(target).channels[IF mode = "left" THEN 1 ELSE 2],
                        StartFrame, EndFrame)

\* Right extracted from an audible mono buffer yields the mono signal
C6_Witness ==
  /\ op = "extract"
  /\ mode = "right"
  /\ numberOfChannels(target) = 1
  /\ StartFrame < EndFrame
  /\ numberOfChannels(result) = 1
  /\ result.channels[1] = Slice(target.channels[1], StartFrame, EndFrame)
  /\ NonSilent(result)

\* C7: ensureStereo of a 1-channel buffer yields exactly 2 channels of the
\* same length, channel 0 identical to the input and channel 1 identical to
\* channel 0; ensureStereo of a buffer with 2 or more channels returns that
\* buffer unchanged.
C7_EnsureStereo ==
  (op = "ensureStereo")
  => IF numberOfChannels(target) = 1
     THEN /\ result.error = "none"
          /\ numberOfChannels(result) = 2
          /\ length(result) = length(target)
          /\ result.channels[1] = target.channels[1]
          /\ result.channels[2] = result.channels[1]
     ELSE result = target

\* an audible mono buffer promoted to two channels
C7_Witness ==
  /\ op = "ensureStereo"
  /\ numberOfChannels(target) = 1
  /\ NonSilent(target)
  /\ numberOfChannels(result) = 2
  /\ result.channels[2] = target.channels[1]

\* C8: concatenate(a, b) has max(a.channels, b.channels) channels and length
\* a.length + b.length; a occupies frames [0, a.length) and b occupies
\* [a.length, a.length + b.length); a mono input of a stereo output appears in
\* both output channels over its own span, independently for a and b.
C8_Concatenate ==
  (op = "concatenate")
  => LET la == length(target)
         lb == length(paste)
     IN  /\ result.error = "none"
         /\ numberOfChannels(result) = Max(numberOfChannels(target), numberOfChannels(paste))
         /\ length(result) = la + lb
         /\ \A c \in 1..numberOfChannels(result) :
              /\ HasUpMix(target, c) => Slice(result.channels[c], 0, la) = UpMix(target, c)
              /\ HasUpMix(paste, c) => Slice(result.channels[c], la, la + lb) = UpMix(paste, c)

\* an audible mono buffer followed by a stereo buffer with different channels
C8_Witness ==
  /\ op = "concatenate"
  /\ numberOfChannels(target) = 1
  /\ numberOfChannels(paste) = 2
  /\ paste.channels[1] # paste.channels[2]
  /\ NonSilent(target)
  /\ numberOfChannels(result) = 2
  /\ Slice(result.channels[2], 0, length(target)) = target.channels[1]

\* the insertion frame of the call, clamped into [0, target.length]
InsertFrame == Clamped(Floor(start, target.sampleRate), FrameCount)

\* C9: insert(target, paste, at) is a ripple insert: with insertFrame clamped
\* into [0, target.length] the result has length target.length + paste.length
\* and max(target.channels, paste.channels) channels, and each channel equals
\* target[0:insertFrame] ++ paste ++ target[insertFrame:], a mono target or
\* paste duplicated into the second channel; no target sample is lost.
C9_InsertIsRippleInsert ==
  (op = "insert")
  => /\ result.error = "none"
     /\ numberOfChannels(result) = Max(numberOfChannels(target), numberOfChannels(paste))
     /\ length(result) = FrameCount + length(paste)
     /\ \A c \in 1..numberOfChannels(result) :
          (HasUpMix(target, c) /\ HasUpMix(paste, c))
          => result.channels[c] = Slice(UpMix(target, c), 0, InsertFrame)
                                  \o UpMix(paste, c)
                                  \o Slice(UpMix(target, c), InsertFrame, FrameCount)

\* a stereo paste inserted strictly inside an audible mono target
C9_Witness ==
  /\ op = "insert"
  /\ 0 < InsertFrame
  /\ InsertFrame < FrameCount
  /\ numberOfChannels(target) = 1
  /\ numberOfChannels(paste) = 2
  /\ paste.channels[1] # paste.channels[2]
  /\ \A i \in 1..FrameCount : target.channels[1][i] # 0
  /\ length(result) = FrameCount + length(paste)

\* the first frame pasteToChannel overwrites, max(0, floor(at * rate))
PasteStart == Max(0, Floor(start, target.sampleRate))

PasteEnd == PasteStart + length(paste)

\* C10: pasteToChannel with mode Left or Right is an overwrite: the result
\* length is max(target.length, endFrame); the selected channel equals paste's
\* channel 0 over [startFrame, endFrame) and the stereo-promoted target
\* elsewhere; every other channel equals the target's channel on every frame
\* below target.length, also when the paste overruns the end.
C10_PasteToChannelOverwrites ==
  (op = "pasteToChannel" /\ mode \in {"left", "right"})
  => LET w   == Promoted(target)
         sel == IF mode = "left" THEN 1 ELSE 2
     IN  /\ result.error = "none"
         /\ numberOfChannels(result) = numberOfChannels(w)
         /\ length(result) = Max(FrameCount, PasteEnd)
         /\ \A i \in 1..length(result) :
              IF i > PasteStart /\ i <= PasteEnd
              THEN result.channels[sel][i] = paste.channels[1][i - PasteStart]
              ELSE i <= FrameCount => result.channels[sel][i] = w.channels[sel][i]
         /\ \A c \in 1..numberOfChannels(w) : \A i \in 1..FrameCount :
              c # sel => result.channels[c][i] = w.channels[c][i]

\* a paste into the right channel that starts inside the target, overruns its
\* end and grows the buffer
C10_Witness ==
  /\ op = "pasteToChannel"
  /\ mode = "right"
  /\ PasteStart < FrameCount
  /\ PasteEnd > FrameCount
  /\ length(result) = PasteEnd
  /\ NonSilent(paste)
  /\ \A i \in 1..FrameCount : target.channels[1][i] # 0
  /\ Slice(result.channels[1], 0, FrameCount) = target.channels[1]

\* the fixed-point product a * b
Times2(a, b) == RoundDiv(a * b, Unit)

\* C11: applyEffects preserves the buffer length and leaves every sample
\* outside the clamped region [startFrame, endFrame) equal to the input;
\* inside the region channel 0 of a 2-channel buffer is multiplied by
\* volume*leftGain and channel 1 by volume*rightGain, a buffer of any other
\* channel count (a mono buffer with |pan| <= 0.01 included) by volume alone;
\* a mono buffer is promoted to two channels exactly when |pan| > 0.01.
C11_ApplyEffectsFrameEffect ==
  (op = "applyEffects") =>
    LET promote == numberOfChannels(target) = 1 /\ Abs(pan) > PanThreshold
        working == IF promote THEN Promoted(target) ELSE target
        factor(c) == IF numberOfChannels(working) = 2
                     THEN Times2(volume, IF c = 1 THEN leftGain(pan) ELSE rightGain(pan))
                     ELSE volume
    IN  /\ result.error = "none"
        /\ length(result) = FrameCount
        /\ numberOfChannels(result) = (IF promote THEN 2 ELSE numberOfChannels(target))
        /\ \A c \in 1..numberOfChannels(working) : \A i \in 1..FrameCount :
             result.channels[c][i] =
               IF StartFrame < i /\ i <= EndFrame
               THEN Times2(working.channels[c][i], factor(c))
               ELSE working.channels[c][i]

\* a mono buffer panned just past the threshold: promoted, an audible frame of
\* the region scaled differently on the two sides, a frame outside it kept
C11_Witness ==
  /\ op = "applyEffects"
  /\ numberOfChannels(target) = 1
  /\ pan = PanThreshold + 1
  /\ numberOfChannels(result) = 2
  /\ \E i \in 1..FrameCount :
       /\ StartFrame < i
       /\ i <= EndFrame
       /\ target.channels[1][i] # 0
       /\ result.channels[1][i] # result.channels[2][i]
  /\ \E i \in 1..FrameCount :
       /\ i > EndFrame
       /\ target.channels[1][i] # 0
       /\ result.channels[2][i] = target.channels[1][i]

\* the non-muted tracks, in order
Unmuted == SelectSeq(tracks, LAMBDA t : ~t.isMuted)

\* L: the maximum length of the non-muted tracks
MixLength ==
  IF Unmuted = <<>> THEN 0
  ELSE CHOOSE m \in { length(Unmuted[k].buffer) : k \in 1..Len(Unmuted) } :
         \A k \in 1..Len(Unmuted) : length(Unmuted[k].buffer) <= m

\* the sample of channel c (1-based) of track t at frame i (1-based): a mono
\* track gives its single channel to both sides, a track that has ended gives 0
TrackSample(t, c, i) == IF i > length(t.buffer) THEN 0 ELSE UpMix(t.buffer, c)[i]

RECURSIVE SumOfTracks(_, _, _)
SumOfTracks(ts, c, i) ==
  IF ts = <<>> THEN 0 ELSE TrackSample(Head(ts), c, i) + SumOfTracks(Tail(ts), c, i)

\* the untrimmed mix: the sum of the non-muted tracks clamped once to [-1, 1]
UntrimmedMix(c, i) == Clamped(SumOfTracks(Unmuted, c, i) + Unit, 2 * Unit) - Unit

\* the frame indexes (0-based) at which either channel of the untrimmed mix
\* is above 1e-4 in absolute value
SoundingFrames ==
  { f \in 0..(MixLength - 1) :
      \/ 10000 * Abs(UntrimmedMix(1, f + 1)) > Unit
      \/ 10000 * Abs(UntrimmedMix(2, f + 1)) > Unit }

LastNonSilentFrame == CHOOSE f \in SoundingFrames : \A g \in SoundingFrames : g <= f

\* min(L, lastNonSilentFrame + floor(0.5 * sampleRate))
TrimmedLength == Min(MixLength, LastNonSilentFrame + (contextRate \div 2))

\* the 1-frame silent 2-channel buffer
MinimalSilentBuffer == AudioBuffer(<<<<0>>, <<0>>>>, contextRate)

\* C13: the mixAll output is always 2-channel and every frame i it retains
\* has on channel c the sum, over the non-muted tracks that reach frame i, of
\* the track's channel c sample (a mono track giving its channel to both
\* sides), clamped once to [-1, 1] after the whole summation: every output
\* sample lies in [-1, 1], and two tracks of constant 0.8 give exactly 1.0.
C13_MixSumsThenClips ==
  (op = "mixAll") =>
    /\ result.error = "none"
    /\ numberOfChannels(result) = 2
    /\ \A c \in 1..2 : \A i \in 1..length(result) :
         /\ result.channels[c][i] = UntrimmedMix(c, i)
         /\ result.channels[c][i] >= -Unit
         /\ result.channels[c][i] <= Unit
    /\ (/\ Len(tracks) = 2
        /\ \A k \in 1..2 : /\ ~tracks[k].isMuted
                            /\ \A c \in 1..numberOfChannels(tracks[k].buffer) :
                                 \A i \in 1..length(tracks[k].buffer) :
                                   tracks[k].buffer.channels[c][i] = (8 * Unit) \div 10)
       => \A i \in 1..length(result) :
            i <= Min(length(tracks[1].buffer), length(tracks[2].buffer))
            => result.channels[1][i] = Unit

\* a mono track of 0.8 over a shorter stereo track of 0.8 and -0.8: the left
\* side clips at 1.0 where both sound, the right side cancels, and the frame
\* past the short track carries the long one alone
C13_Witness ==
  /\ op = "mixAll"
  /\ Len(tracks) = 2
  /\ ~tracks[1].isMuted
  /\ ~tracks[2].isMuted
  /\ numberOfChannels(tracks[1].buffer) = 1
  /\ numberOfChannels(tracks[2].buffer) = 2
  /\ length(tracks[1].buffer) = 2
  /\ length(tracks[2].buffer) = 1
  /\ result.channels = << <<Unit, (8 * Unit) \div 10>>, <<0, (8 * Unit) \div 10>> >>

\* C14: mixAll trims trailing silence: with L the maximum length of the
\* non-muted tracks and lastNonSilentFrame the largest frame index at which
\* either clipped channel is above 1e-4 in absolute value, the output has
\* min(L, lastNonSilentFrame + floor(0.5 * sampleRate)) frames, which are the
\* first frames of the untrimmed mix.
C14_MixTrimsTrailingSilence ==
  (op = "mixAll" /\ SoundingFrames # {}) =>
    /\ length(result) = TrimmedLength
    /\ \A c \in 1..2 : \A i \in 1..TrimmedLength :
         result.channels[c][i] = UntrimmedMix(c, i)

\* a sound at frame 0 followed by a frame at the silence threshold, half a
\* second being one frame: the mix is cut after the margin
C14_Witness ==
  /\ op = "mixAll"
  /\ SoundingFrames = {0}
  /\ MixLength = 2
  /\ UntrimmedMix(1, 2) = SilenceThreshold
  /\ contextRate \div 2 = 1
  /\ length(result) = 1

\* C15: mixAll with no tracks, or with every track muted, returns a 1-frame
\* silent 2-channel buffer; muted tracks never contribute to the output
\* length or to any output sample (the mix is the mix of the non-muted tracks
\* alone); and whenever the trimmed length is 0 the same minimal silent
\* buffer is returned.
C15_MixOfNothingIsMinimal ==
  (op = "mixAll") =>
    /\ Unmuted = <<>> => result = MinimalSilentBuffer
    /\ result = mixAllTracks(Unmuted, contextRate)
    /\ (SoundingFrames # {} /\ TrimmedLength = 0) => result = MinimalSilentBuffer

\* a muted track of 0.8, longer than the sounding track it is mixed with
C15_Witness ==
  /\ op = "mixAll"
  /\ Len(tracks) = 2
  /\ tracks[1].isMuted
  /\ ~tracks[2].isMuted
  /\ length(tracks[1].buffer) > length(tracks[2].buffer)
  /\ tracks[1].buffer.channels[1][1] = (8 * Unit) \div 10
  /\ tracks[2].buffer.channels[1][1] = (8 * Unit) \div 10
  /\ result.channels[1] = <<(8 * Unit) \div 10>>

\* the little-endian unsigned 16- and 32-bit fields and the signed 16-bit
\* sample at byte offset off (0-based) of a file
U16(bytes, off) == bytes[off + 1] + 256 * bytes[off + 2]

U32(bytes, off) == U16(bytes, off) + 65536 * U16(bytes, off + 2)

S16(bytes, off) == IF U16(bytes, off) >= 32768 THEN U16(bytes, off) - 65536 ELSE U16(bytes, off)

\* frameCount * numChannels * 2
DataBytes == FrameCount * numberOfChannels(target) * 2

\* the sample of the file for frame i (0-based) of channel c (0-based), frames
\* interleaved with channel 0 first
FileSample(i, c) == S16(wave.bytes, 44 + 2 * (i * numberOfChannels(target) + c))

\* the sample of the buffer for frame i of channel c (0-based), clamped to [-1, 1]
ClampedSample(i, c) == Clamped(target.channels[c + 1][i + 1] + Unit, 2 * Unit) - Unit

\* n / Unit rounded to the nearest integer, and with its fraction dropped
Rounded(n) == (2 * n + Unit) \div (2 * Unit)

Truncated(n) == IF n >= 0 THEN n \div Unit ELSE -((-n) \div Unit)

\* C16: the WAV encoder's header reflects exact byte counts: for a buffer of
\* numChannels channels and frameCount frames the output has
\* 44 + frameCount*numChannels*2 bytes, RIFF size field 36 + data bytes,
\* audioFormat 1, byteRate sampleRate*numChannels*2, blockAlign
\* numChannels*2, bitsPerSample 16, data size field frameCount*numChannels*2,
\* and the samples are interleaved frame by frame with channel 0 first.
C16_WavHeaderExactByteCounts ==
  (op = "bufferToWave") =>
    /\ Len(wave.bytes) = 44 + DataBytes
    /\ SubSeq(wave.bytes, 1, 4) = <<82, 73, 70, 70>>
    /\ U32(wave.bytes, 4) = 36 + DataBytes
    /\ U16(wave.bytes, 20) = 1
    /\ U16(wave.bytes, 22) = numberOfChannels(target)
    /\ U32(wave.bytes, 24) = target.sampleRate
    /\ U32(wave.bytes, 28) = target.sampleRate * numberOfChannels(target) * 2
    /\ U16(wave.bytes, 32) = numberOfChannels(target) * 2
    /\ U16(wave.bytes, 34) = 16
    /\ U32(wave.bytes, 40) = DataBytes
    /\ \A i \in 0..(FrameCount - 1) : \A c \in 0..(numberOfChannels(target) - 1) :
         FileSample(i, c) = floatToPcm(target.channels[c + 1][i + 1])

\* a 44.1 kHz buffer of two frames and two channels that differ on both frames
C16_Witness ==
  /\ op = "bufferToWave"
  /\ target.sampleRate = 44100
  /\ numberOfChannels(target) = 2
  /\ FrameCount = 2
  /\ Len(wave.bytes) = 52
  /\ U32(wave.bytes, 28) = 176400
  /\ FileSample(0, 0) = 32767
  /\ FileSample(0, 1) = -32768
  /\ FileSample(1, 0) = -32768
  /\ FileSample(1, 1) = 32767

\* C17 as stated: each float sample s, clamped to [-1, 1], is converted by
\* s < 0 ? round(s * 32768) : round(s * 32767), rounding to the nearest integer
\* rather than truncating toward zero, so the result lies in [-32768, 32767].
C17_SamplesRoundedToNearest ==
  (op = "bufferToWave") =>
    \A i \in 0..(FrameCount - 1) : \A c \in 0..(numberOfChannels(target) - 1) :
      LET s == ClampedSample(i, c)
      IN  /\ FileSample(i, c) = (IF s < 0 THEN Rounded(s * 32768) ELSE Rounded(s * 32767))
          /\ FileSample(i, c) >= -32768
          /\ FileSample(i, c) <= 32767

\* C17, amended: each float sample s, clamped to [-1, 1], is converted to
\* s * 32768 (s < 0) or s * 32767 (s >= 0) with the fraction dropped
\* (truncation toward zero), and the result lies in [-32768, 32767].
C17_SamplesTruncatedTowardZero ==
  (op = "bufferToWave") =>
    \A i \in 0..(FrameCount - 1) : \A c \in 0..(numberOfChannels(target) - 1) :
      LET s == ClampedSample(i, c)
      IN  /\ FileSample(i, c) = (IF s < 0 THEN Truncated(s * 32768) ELSE Truncated(s * 32767))
          /\ FileSample(i, c) >= -32768
          /\ FileSample(i, c) <= 32767

\* the sample 0.5, whose product 16383.5 is stored as 16383, beside a sample
\* beyond full scale stored as 32767
C17_Witness ==
  /\ op = "bufferToWave"
  /\ numberOfChannels(target) = 2
  /\ FrameCount = 2
  /\ target.channels[1] = <<Unit \div 2, 2 * Unit>>
  /\ FileSample(0, 0) = 16383
  /\ FileSample(0, 1) = -16384
  /\ FileSample(1, 0) = 32767
  /\ FileSample(1, 1) = -32768

\* the samples of the buffer lie in [-1, 1]
SamplesInRange ==
  \A c \in 1..numberOfChannels(target) : \A i \in 1..FrameCount :
    Abs(target.channels[c][i]) <= Unit

\* 32768 times the distance between the sample of the buffer and the decoded
\* sample of the file (integer / 32768), in units of 1 / Unit
RoundTripError(i, c) == Abs(target.channels[c + 1][i + 1] * 32768 - FileSample(i, c) * Unit)

\* C18 as stated: encoding a buffer whose samples lie in [-1, 1] to 16-bit
\* PCM and decoding it (integer / 32768) recovers every sample within 1/32768
\* of its original value.
C18_RoundTripWithinOneStep ==
  (op = "bufferToWave" /\ SamplesInRange) =>
    \A i \in 0..(FrameCount - 1) : \A c \in 0..(numberOfChannels(target) - 1) :
      RoundTripError(i, c) <= Unit

\* C18, amended: the round trip recovers every sample of [-1, 0] within less
\* than 1/32768 and every sample of (0, 1] within less than 2/32768 of its
\* original value.
C18_RoundTripWithinTwoSteps ==
  (op = "bufferToWave" /\ SamplesInRange) =>
    \A i \in 0..(FrameCount - 1) : \A c \in 0..(numberOfChannels(target) - 1) :
      IF target.channels[c + 1][i + 1] <= 0
      THEN RoundTripError(i, c) < Unit
      ELSE RoundTripError(i, c) < 2 * Unit

\* the sample 0.9, stored as 29490 and decoded as 0.89996, beside its negation,
\* stored as -29491 and decoded as -0.90000
C18_Witness ==
  /\ op = "bufferToWave"
  /\ SamplesInRange
  /\ numberOfChannels(target) = 2
  /\ target.channels[1][1] = (9 * Unit) \div 10
  /\ FileSample(0, 0) = 29490
  /\ FileSample(0, 1) = -29491
  /\ RoundTripError(0, 0) > Unit
  /\ RoundTripError(0, 1) < Unit

Captures(type) ==
  /\ export.mimeType = type
  /\ ~export.encoderInvoked
  /\ \/ export.promise = "pending" /\ export.recorder \in {"recording", "stopping"}
     \/ export.promise = "resolved" /\ export.blobType = type
     \/ export.promise = "rejected" /\ export.error = "MediaRecorderError"

\* C20: export outcome by format when the compressed encoder cannot be loaded
\* or fails: 'wav' never invokes the encoder and always returns a blob; 'mp3'
\* fails with an error and produces no blob; 'mp4' goes to real-time capture
\* with container 'audio/mp4' if that type is supported and otherwise
\* 'audio/webm'; 'webm' goes to capture with 'audio/webm'; the container
\* formats never fail merely because the encoder is unavailable.
C20_ExportOutcomeByFormat ==
  (op = "exportAudio" /\ ~platform.encoderWorks) =>
    /\ export.format = "wav" =>
         /\ ~export.encoderInvoked
         /\ export.promise = "resolved"
         /\ export.blobType = "audio/wav"
         /\ wave = bufferToWave(target, length(target))
    /\ export.format = "mp3" =>
         /\ export.promise = "rejected"
         /\ export.error # ""
         /\ export.blobType = ""
    /\ (export.format = "mp4" /\ "audio/mp4" \in platform.supported) =>
         Captures("audio/mp4")
    /\ (export.format = "mp4" /\ platform.supported = {"audio/webm"}) =>
         Captures("audio/webm")
    /\ (export.format = "webm" /\ "audio/webm" \in platform.supported) =>
         Captures("audio/webm")
    /\ export.format \in {"mp4", "webm"} =>
         /\ ~export.encoderInvoked
         /\ export.error # "Mp3Encoder"
         /\ export.promise = "rejected" =>
              export.error = "MediaRecorderError" \/ export.mimeType \notin platform.supported

\* without a working encoder and without MP4 support, the MP4 export has
\* delivered a WebM blob
C20_Witness ==
  /\ op = "exportAudio"
  /\ ~platform.encoderWorks
  /\ platform.supported = {"audio/webm"}
  /\ export.format = "mp4"
  /\ export.promise = "resolved"
  /\ export.blobType = "audio/webm"
  /\ export.playback = "ended"

\* the places of an event in the history of the capture
Positions(event) == { i \in 1..Len(export.log) : export.log[i] = event }

\* every occurrence of the event later comes after an occurrence of earlier
Precedes(earlier, later) ==
  \A j \in Positions(later) : \E i \in Positions(earlier) : i < j

\* the chunks received with data in them, in arrival order
NonEmptyChunks ==
  SelectSeq([i \in 1..Len(export.received) |-> i], LAMBDA i : export.received[i] > 0)

\* the export chose the real-time capture and started it
CaptureStarted == export.log # <<>>

\* C21: in the real-time capture export the recorder is started before
\* playback starts, the recorder is stopped only after the playback-ended
\* signal, and the export completes only on the recorder's stop event,
\* delivering a blob made of exactly the non-empty chunks received so far in
\* arrival order; the export never completes before playback has ended and
\* never completes twice.
C21_CaptureLifecycle ==
  CaptureStarted =>
    /\ SubSeq(export.log, 1, 2) = <<"recorder.start", "source.start">>
    /\ Precedes("ended", "recorder.stop")
    /\ Precedes("stop", "resolve")
    /\ Cardinality(Positions("resolve")) <= 1
    /\ export.promise = "resolved" =>
         /\ Positions("resolve") # {}
         /\ export.playback = "ended"
         /\ Precedes("ended", "resolve")
         /\ export.blob = NonEmptyChunks
         /\ export.blobType = export.mimeType

\* a capture that received an empty chunk and a chunk with data has ended
\* and delivered the one chunk with data
C21_Witness ==
  /\ CaptureStarted
  /\ export.promise = "resolved"
  /\ export.received = <<0, 1>>
  /\ export.blob = <<2>>
  /\ export.playback = "ended"

\* the promise of the export is fulfilled or rejected
Settled == export.promise \in {"resolved", "rejected"}

\* C22: once a real-time capture export is started it eventually settles:
\* when playback eventually signals ended and the recorder eventually
\* delivers its stop or error event, the export eventually either resolves
\* with the blob or rejects with the recorder error, and after a recorder
\* error it is not later reported as a success.
C22_CaptureSettles ==
  /\ (CaptureStarted /\ export.promise = "pending") ~>
       \/ export.promise = "resolved" /\ export.blob = NonEmptyChunks
       \/ export.promise = "rejected" /\ export.error = "MediaRecorderError"
  /\ [][(CaptureStarted /\ Settled) => export'.promise = export.promise]_vars
  /\ [](Positions("error") # {} => export.promise = "rejected")

\* the recorder failed during the capture, the export was rejected, and the
\* stop event that follows the error has been handled after playback ended
C22_Witness ==
  /\ CaptureStarted
  /\ export.promise = "rejected"
  /\ export.error = "MediaRecorderError"
  /\ export.recorder = "inactive"
  /\ Positions("stop") # {}
  /\ export.playback = "ended"

\* a buffer of n channels of one frame of silence
SilentFrame(n) == AudioBuffer([c \in 1..n |-> <<0>>], target.sampleRate)

\* C23: minimal-buffer rule: cutRegion in Stereo mode that removes every
\* frame returns a 1-frame all-zero buffer with the input's channel count,
\* and extractRegion over an empty clamped region returns a 1-frame all-zero
\* buffer; neither ever returns a 0-length buffer.
C23_MinimalBufferRule ==
  /\ (op = "cut" /\ mode = "stereo" /\ StartFrame = 0 /\ EndFrame = FrameCount) =>
       result = SilentFrame(numberOfChannels(target))
  /\ (op = "extract" /\ EndFrame <= StartFrame) =>
       \E n \in 1..MaxChannels : result = SilentFrame(n)
  /\ op \in {"cut", "extract"} =>
       /\ result.error = "none"
       /\ numberOfChannels(result) >= 1
       /\ \A c \in 1..numberOfChannels(result) : Len(result.channels[c]) >= 1

\* the Stereo cut of all the frames of a buffer of several frames and
\* several channels, not all silent, has returned one frame of silence
C23_Witness ==
  /\ op = "cut"
  /\ mode = "stereo"
  /\ FrameCount > 1
  /\ numberOfChannels(target) > 1
  /\ \E i \in 1..FrameCount : target.channels[1][i] # 0
  /\ StartFrame = 0
  /\ EndFrame = FrameCount
  /\ result = SilentFrame(numberOfChannels(target))

\* the times that fall into frame f: its first and its last tick
TimesOfFrame(f) == {FrameTime(f), FrameTime(f) + TicksPerFrame - 1}

\* C24: insert/cut round trip: for every target and paste with
\* paste.channels <= target.channels and every insertFrame in
\* [0, target.length], cutRegion(insert(target, paste, insertFrame),
\* insertFrame, insertFrame + paste.length, Stereo) is sample-for-sample
\* equal to target (same length and channel count).
C24_InsertCutRoundTrip ==
  (op = "insert" /\ numberOfChannels(paste) <= numberOfChannels(target)) =>
    /\ result.error = "none"
    /\ \A s \in TimesOfFrame(InsertFrame), e \in TimesOfFrame(InsertFrame + length(paste)) :
         cutAudioRegion(result, s, e, "stereo") = target

\* a mono paste inserted strictly inside an audible target of several
\* channels, which the cut of the inserted frames gives back
C24_Witness ==
  /\ op = "insert"
  /\ numberOfChannels(paste) = 1
  /\ numberOfChannels(target) > 1
  /\ NonSilent(target)
  /\ NonSilent(paste)
  /\ 0 < InsertFrame
  /\ InsertFrame < FrameCount
  /\ result # target
  /\ cutAudioRegion(result, FrameTime(InsertFrame),
                    FrameTime(InsertFrame + length(paste)), "stereo") = target

\* C25: pasteToChannel called with mode Stereo does not write both channels
\* and does not reject the mode: it behaves exactly as with mode Right,
\* overwriting channel 1 only and leaving channel 0 equal to the target.
C25_PasteStereoIsPasteRight ==
  (op = "pasteToChannel" /\ mode = "stereo") =>
    LET w == Promoted(target)
    IN  /\ result.error = "none"
        /\ result = pasteAudioToChannel(target, paste, start, "right")
        /\ length(result) = Max(FrameCount, PasteEnd)
        /\ \A i \in 1..length(result) :
             IF i > PasteStart /\ i <= PasteEnd
             THEN result.channels[2][i] = paste.channels[1][i - PasteStart]
             ELSE i <= FrameCount => result.channels[2][i] = w.channels[2][i]
        /\ \A c \in 1..numberOfChannels(w) :
             c # 2 => Slice(result.channels[c], 0, FrameCount) = w.channels[c]

\* a paste in Stereo mode over silence inside a stereo target: channel 1
\* has the pasted samples and channel 0 is still silent there
C25_Witness ==
  /\ op = "pasteToChannel"
  /\ mode = "stereo"
  /\ numberOfChannels(target) = 2
  /\ PasteEnd <= FrameCount
  /\ \A i \in 1..length(paste) :
       /\ paste.channels[1][i] # 0
       /\ target.channels[1][PasteStart + i] = 0
       /\ target.channels[2][PasteStart + i] = 0
       /\ result.channels[1][PasteStart + i] = 0
       /\ result.channels[2][PasteStart + i] = paste.channels[1][i]

\* at least one channel, at least one frame, every channel of the same length
WellFormed(b) ==
  /\ b.error = "none"
  /\ numberOfChannels(b) >= 1
  /\ Len(b.channels[1]) >= 1
  /\ \A c \in 1..numberOfChannels(b) : Len(b.channels[c]) = Len(b.channels[1])

\* C26: buffer well-formedness is closed under the engine: starting from
\* buffers with at least 1 channel and at least 1 frame, after any sequence
\* of cutRegion, extractRegion, concatenate, insert, pasteToChannel, pad
\* (extra >= 0), applyEffects and mixAll calls with arbitrary coordinates and
\* modes, every produced buffer has at least 1 channel, at least 1 frame, and
\* all its channels have the same length; no call fails to produce one.
C26_WellFormednessClosed ==
  /\ \A r \in 1..Len(heap) : WellFormed(heap[r])
  /\ op # "none" => resultRef \in 1..Len(heap)

\* the buffer a reversed Stereo cut made out of the result of an earlier call
\* is longer than its input, and well-formed
C26_Witness ==
  /\ op = "cut"
  /\ Len(heap) = 3
  /\ inputRefs = {2}
  /\ resultRef = 3
  /\ length(heap[3]) > length(heap[2])
  /\ length(heap[2]) # length(heap[1])
  /\ WellFormed(heap[3])

\* the track list in the order p
Permuted(p) == [k \in 1..Len(tracks) |-> tracks[p[k]]]

\* C27: mixAll is independent of track order: for every list of tracks and
\* every permutation of it, the mixed output (length and every sample) is
\* identical, because clipping is applied only once after all tracks are
\* summed and never between tracks.
C27_MixIndependentOfTrackOrder ==
  (op = "mixAll") =>
    \A p \in Permutations(1..Len(tracks)) :
      mixAllTracks(Permuted(p), contextRate) = result

\* the recorders that were started and have not been stopped
Recording == { r \in 1..Len(studio.recorders) : studio.recorders[r].state = "recording" }

\* a click on the record button of the track of recorder r stops r
Stoppable(r) ==
  /\ studio.recordingTrackId = studio.recorders[r].trackId
  /\ studio.mediaRecorderRef = r

\* recorder r has not handed its recording to the track yet
InProgress(r) ==
  studio.recorders[r].state = "recording" \/ studio.recorders[r].stopEvent = "queued"

\* C28: at most one microphone recording is in progress at any time: over
\* any sequence of record-toggle events on any tracks, there is never more
\* than one started-and-not-stopped recorder, every started recorder remains
\* stoppable through a later toggle, and the chunks accumulated for one
\* recording are never mixed with or reset by another recording.
C28_AtMostOneRecording ==
  /\ Cardinality(Recording) <= 1
  /\ \A r \in Recording : Stoppable(r)
  /\ \A r \in 1..Len(studio.recorders) :
       InProgress(r) =>
         studio.recordedChunksRef = [i \in 1..studio.recorders[r].kept |-> r]

\* C29: no edit is lost across a recording: when a recording on a track
\* stops, the recorded audio is spliced into that track's buffer as it is at
\* stop time, so any cut, paste, append or effect applied to the track
\* between recording start and recording stop is still present in the
\* track's buffer afterwards.
C29_NoEditLostAcrossRecording ==
  [][\A r \in 1..Len(studio.recorders) :
       (/\ studio.recorders[r].stopEvent = "queued"
        /\ studio'.recorders[r].stopEvent = "handled"
        /\ decodeAudioData(studio.recordedChunksRef).error = "none")
       => studio'.tracks[studio.recorders[r].trackId]
            = spliceRecording(studio.tracks[studio.recorders[r].trackId],
                              decodeAudioData(studio.recordedChunksRef),
                              studio.recordingStartTimeRef,
                              studio.recordingChannelModeRef)]_vars
====
